---- MODULE Spec2Model ----
(***************************************************************************)
(* SokuTeX: the edit-event debouncer (src/main.rs), the coordinating       *)
(* compiler daemon (src/compiler_daemon.rs), the compile cache and the     *)
(* include-scope optimizer (src/compiler.rs) and the latexmk supervisor    *)
(* (src/latexmk.rs), as state machines.                                    *)
(*                                                                         *)
(* The specifications of the module:                                       *)
(*   SpecDebounce  the debouncer task under a discrete clock;              *)
(*   Spec          the daemon's select loop with the compiler it owns, the *)
(*                 latexmk process and the files both touch;               *)
(*   SpecOptimize  calls of Compiler::optimize_latex between edits of the  *)
(*                 files in the store;                                     *)
(*   SpecScan      one call of DependencyScanner::scan, its sibling        *)
(*                 subtrees evaluated in parallel (src/dependencies.rs);   *)
(*   SpecDraft     repeated calls of Compiler::apply_draft_mode;           *)
(*   SpecVfs       tasks calling Vfs::write_file and Vfs::read_file        *)
(*                 concurrently (src/vfs.rs);                              *)
(*   SpecInternal  calls of Compiler::compile_internal, each replied with  *)
(*                 a revision;                                             *)
(*   SpecReader    the stdout reader task of the latexmk supervisor, the   *)
(*                 event channel and the daemon receiving from it;         *)
(*   SpecEditor    key presses handled by Editor::handle_key               *)
(*                 (src/editor.rs);                                        *)
(*   SpecLive      Spec with the daemon's loop and the running build       *)
(*                 taking their steps (weak fairness);                     *)
(*   SpecObserve   the parallel change detection of one optimize_latex     *)
(*                 call while another task writes the store;               *)
(*   SpecRelay     the tasks spawned per forwarded attempt, the daemon     *)
(*                 serving them and the event loop taking their results.   *)
(***************************************************************************)
EXTENDS Integers, Sequences, FiniteSets, TLC

VARIABLES
    \* ---- debouncer task (main.rs:77-160) ----
    now,                \* tokio::time::Instant::now(), in ms since the task started
    last_req,           \* main.rs:78  Option<tuple>: NoTuple or the held tuple's number
    last_compile_time,  \* main.rs:79  Option<Instant>: NoTime or a time
    sleep_deadline,     \* main.rs:81  the deadline of the pinned `sleep`
    recvCount,          \* number of tuples debounce_rx.recv() has returned so far
    firstRecvTime,      \* when the first tuple was received (history)
    lastRecvTime,       \* when the latest tuple was received (history)
    forwarded,          \* the tokio::spawn'ed compile attempts, in order (history)
    \* ---- shared ----
    vfs,                \* vfs.rs:5  files: path -> text
    \* ---- daemon (compiler_daemon.rs:30-39) and its compiler (compiler.rs:30-36) ----
    latexmk,            \* Option<LatexmkPvc>: TRUE iff LatexmkPvc::spawn succeeded
    event_rx,           \* the LatexmkEvents sent and not yet received
    pending_response,   \* Option<oneshot::Sender>: NoReq or the parked request
    revision,
    last_pdf_hash,
    cache,              \* compiler.cache: key -> output
    backend,            \* compiler.backend
    active_file,        \* compiler.active_file: <<>> or <<path>>
    file_hashes,        \* compiler.file_hashes: path -> hash
    \* ---- the files the daemon and latexmk share, and the latexmk process ----
    fs_main_tex,        \* main.tex on disk: <<>> or <<text>>
    fs_main_pdf,        \* main.pdf on disk: <<>> or <<output>>
    fs_synctex,         \* which of main.synctex.gz, main.synctex exist
    lmk_build,          \* the build latexmk is running: <<>> or <<what it read>>
    triggers,           \* newlines written to latexmk's stdin
    builds,             \* builds latexmk has started
    \* ---- history ----
    responses,          \* per request, in order of receipt: what its caller got
    compileLog,         \* the calls of Compiler::compile, in order
    opt_call,           \* the latest call of optimize_latex: <<>> or <<inputs and outputs>>
    \* ---- one call of DependencyScanner::scan (dependencies.rs:28-102) ----
    scan_nodes,         \* the DependencyNodes made so far, each with its parent
    scan_visited,       \* dependencies.rs:29  the DashSet of visited names
    \* ---- calls of Compiler::apply_draft_mode on one source (compiler.rs:284-334) ----
    draft_src,          \* the source the calls started from
    draft_cur,          \* the text the latest call returned
    draft_flags,        \* the draft flags of the calls so far, in order
    \* ---- tasks calling Vfs::write_file and Vfs::read_file (vfs.rs:16-22) ----
    vfs_shard,          \* the DashMap shard each path hashes to
    vfs_lock,           \* per shard: the task holding it for writing (0: none), the readers
    vfs_task,           \* per task: the call it is in and how far it has got
    vfs_written,        \* per path: the contents inserted so far, in order (history)
    vfs_returned,       \* per path: how many of them the latest returned write had seen (history)
    vfs_reads,          \* the calls of read_file that have returned (history)
    \* ---- calls of Compiler::compile_internal (compiler.rs:352-377) ----
    int_runs,           \* per call, in order: the source, the output, the revision replied
    \* ---- the stdout reader task of LatexmkPvc::spawn (latexmk.rs:35-48) ----
    rd_lines,           \* the lines latexmk has written to stdout, in order
    rd_pos,             \* how many of them next_line() has returned
    rd_pending,         \* the event of the line at hand, not yet sent: <<>> or <<event>>
    rd_alive,           \* the daemon still holds the receiver of the event channel
    rd_sent,            \* the events the channel took, each with its line (history)
    rd_recv,            \* how many of them the daemon has received (history)
    \* ---- the editor (editor.rs:11-19) under Editor::handle_key ----
    ed_buffer,          \* editor.rs:12  buffer: the characters of the rope
    ed_cursor,          \* editor.rs:13  cursor: a char index, from 0
    ed_mode,            \* editor.rs:14  mode
    ed_anchor,          \* editor.rs:16  visual_anchor: <<>> or <<index>>
    ed_key,             \* the latest handle_key call: <<>> or <<key, mode it found>> (history)
    \* ---- the parallel change detection of one optimize_latex call (compiler.rs:176-211) ----
    obs_list,           \* compiler.rs:164  all_known_files
    obs_task,           \* per item of the list: where its closure stands, what it read and returned
    obs_fh0,            \* file_hashes as the call found it (history)
    \* ---- the tasks spawned per forwarded attempt (main.rs:99-116, 138-155) ----
    rl_task,            \* per task, in forwarding order: its tuple's text, where it stands, its reply
    rl_compile,         \* main.rs:67  the requests in the compile channel: the tasks that sent them
    rl_recvd,           \* the tasks whose requests the daemon has received, in order (history)
    rl_result,          \* main.rs:68  the results in the result channel
    rl_current          \* main.rs:189  current_pdf_revision

dvars == <<now, last_req, last_compile_time, sleep_deadline, recvCount,
           firstRecvTime, lastRecvTime, forwarded>>

svars == <<vfs, latexmk, event_rx, pending_response, revision, last_pdf_hash, cache,
           backend, active_file, file_hashes, fs_main_tex, fs_main_pdf, fs_synctex,
           lmk_build, triggers, builds, responses, compileLog>>

evars == <<ed_buffer, ed_cursor, ed_mode, ed_anchor, ed_key>>

ovars == <<obs_list, obs_task, obs_fh0>>

rvars == <<rl_task, rl_compile, rl_recvd, rl_result, rl_current>>

zvars == <<evars, ovars, rvars>>

yvars == <<zvars, draft_src, draft_cur, draft_flags,
           vfs_shard, vfs_lock, vfs_task, vfs_written, vfs_returned, vfs_reads,
           int_runs, rd_lines, rd_pos, rd_pending, rd_alive, rd_sent, rd_recv>>

xvars == <<opt_call, scan_nodes, scan_visited, yvars>>

vars == <<dvars, svars, xvars>>

\* The components that a specification does not run stay as they are here
IdleDraft == draft_src = <<>> /\ draft_cur = <<>> /\ draft_flags = <<>>

IdleVfs ==
    /\ vfs_shard = <<>> /\ vfs_lock = <<>> /\ vfs_task = <<>>
    /\ vfs_written = <<>> /\ vfs_returned = <<>> /\ vfs_reads = <<>>

IdleInternal == int_runs = <<>>

IdleReader ==
    /\ rd_lines = <<>> /\ rd_pos = 0 /\ rd_pending = <<>> /\ rd_alive = TRUE
    /\ rd_sent = <<>> /\ rd_recv = 0

\* editor.rs:23-33  Editor::new(), no key handled
IdleEditor ==
    /\ ed_buffer = <<>> /\ ed_cursor = 0 /\ ed_mode = "Normal" /\ ed_anchor = <<>>
    /\ ed_key = <<>>

\* No change detection under way
IdleObserve == obs_list = <<>> /\ obs_task = <<>> /\ obs_fh0 = <<>>

\* main.rs:67-68, 189  no attempt forwarded, the channels empty
IdleRelay ==
    /\ rl_task = <<>> /\ rl_compile = <<>> /\ rl_recvd = <<>> /\ rl_result = <<>>
    /\ rl_current = 0

IdleZ == IdleEditor /\ IdleObserve /\ IdleRelay

IdleY == IdleDraft /\ IdleVfs /\ IdleInternal /\ IdleReader /\ IdleZ

(***************************************************************************)
(* Bounds and program constants                                            *)
(***************************************************************************)
W == 150            \* main.rs:80  sleep_duration = Duration::from_millis(150)
TickMs == 10        \* granularity of the model's clock
MaxTime == 340      \* the clock stops here
MaxTuples == 10     \* tuples fed to the debouncer in one behaviour

MaxReq == 2         \* compile requests the daemon receives in one behaviour
MaxBuilds == 2      \* builds the latexmk process runs in one behaviour
EventCap == 10      \* compiler_daemon.rs:43  mpsc::channel(10)

NoReq == 0          \* pending_response = None
NoTuple == 0        \* last_req = None
NoTime == -1        \* last_compile_time = None

Last(s) == s[Len(s)]

(***************************************************************************)
(* The debouncer: tokio::select! over debounce_rx.recv() and the sleep     *)
(***************************************************************************)

\* C6 mutant: the window test with > in place of >=
LeadingEdgeStrict(t, lct) == lct = NoTime \/ t - lct > W

\* C5 mutant: every tuple taken as a leading edge
LeadingEdgeAlways(t, lct) == TRUE

\* main.rs:90  last_compile_time.map_or(true, |t| now.duration_since(t) >= sleep_duration)
LeadingEdge(t, lct) == lct = NoTime \/ t - lct >= W

\* C3/C4 mutant: a held tuple is not overwritten by a newer one
OnRecvKeepOld(r, t, lr, lct) ==
    IF LeadingEdge(t, lct)
    THEN [spawn |-> r, last_req |-> NoTuple, last_compile_time |-> t,
          sleep_deadline |-> t + W]
    ELSE [spawn |-> NoTuple, last_req |-> IF lr = NoTuple THEN r ELSE lr,
          last_compile_time |-> lct, sleep_deadline |-> t + W]

\* main.rs:88-125  the Some(r) arm: r received at time t with last_req = lr and
\* last_compile_time = lct.  spawn is the tuple handed to tokio::spawn, if any.
OnRecv(r, t, lr, lct) ==
    IF LeadingEdge(t, lct)
    THEN [spawn |-> r, last_req |-> NoTuple, last_compile_time |-> t,
          sleep_deadline |-> t + W]
    ELSE [spawn |-> NoTuple, last_req |-> r,
          last_compile_time |-> lct, sleep_deadline |-> t + W]

\* C29 mutant: the sleep arm reads the held tuple without taking it
OnTimerKeep(t, lr) ==
    [spawn |-> lr, last_req |-> lr, last_compile_time |-> t]

\* main.rs:130-132  the sleep arm: last_req.take(), last_compile_time = now
OnTimer(t, lr) ==
    [spawn |-> lr, last_req |-> NoTuple, last_compile_time |-> t]

\* One forwarded attempt: the tuple, the instant, the edge, and the held tuple
\* a leading edge threw away (NoTuple if none).
Attempt(id, t, edge, over) == [id |-> id, at |-> t, edge |-> edge, over |-> over]

\* main.rs:78-82  the task's locals before the loop
DebouncerInit ==
    /\ now = 0
    /\ last_req = NoTuple
    /\ last_compile_time = NoTime
    /\ sleep_deadline = W
    /\ recvCount = 0
    /\ firstRecvTime = NoTime
    /\ lastRecvTime = NoTime
    /\ forwarded = <<>>

\* req = debounce_rx.recv() => Some(r): the tuple numbered recvCount + 1 arrives
DebounceRecv ==
    /\ recvCount < MaxTuples
    /\ LET r == recvCount + 1
           o == OnRecv(r, now, last_req, last_compile_time)
       IN /\ recvCount' = r
          /\ firstRecvTime' = IF recvCount = 0 THEN now ELSE firstRecvTime
          /\ lastRecvTime' = now
          /\ last_req' = o.last_req
          /\ last_compile_time' = o.last_compile_time
          /\ sleep_deadline' = o.sleep_deadline
          /\ forwarded' = IF o.spawn = NoTuple THEN forwarded
                          ELSE Append(forwarded, Attempt(o.spawn, now, "leading", last_req))
    /\ UNCHANGED <<now, svars, xvars>>

\* _ = &mut sleep, if last_req.is_some()
DebounceTimer ==
    /\ last_req # NoTuple
    /\ now >= sleep_deadline
    /\ LET o == OnTimer(now, last_req)
       IN /\ last_req' = o.last_req
          /\ last_compile_time' = o.last_compile_time
          /\ forwarded' = Append(forwarded, Attempt(o.spawn, now, "trailing", NoTuple))
    /\ UNCHANGED <<now, sleep_deadline, recvCount, firstRecvTime, lastRecvTime, svars,
                   xvars>>

\* The clock advances.  An armed timer that is due fires before the clock moves
\* on: the runtime wakes the task at the deadline, so time does not pass the
\* deadline while the sleep arm is enabled.
Tick ==
    /\ now + TickMs <= MaxTime
    /\ ~(last_req # NoTuple /\ now >= sleep_deadline)
    /\ now' = now + TickMs
    /\ UNCHANGED <<last_req, last_compile_time, sleep_deadline, recvCount,
                   firstRecvTime, lastRecvTime, forwarded, svars, xvars>>

(***************************************************************************)
(* Source texts.  A text is a sequence of tokens; a token is a command with *)
(* its arguments, a run of plain text, or the newline.  What the code does  *)
(* with regexes and str::find/replace/insert_str is done here on tokens.    *)
(***************************************************************************)
Tok(k, a) == [k |-> k, a |-> a]
NL == Tok("nl", <<>>)                               \* "\n"
DocClass == Tok("documentclass", <<>>)              \* \documentclass{article}
DocClassOpt(opts) == Tok("documentclass[]", opts)   \* \documentclass[o1,o2]{article}
Include(u) == Tok("include", <<u>>)                 \* \include{u}
Input(u) == Tok("input", <<u>>)                     \* \input{u}
IncludeOnly(us) == Tok("includeonly", us)           \* \includeonly{u1,u2}
BeginDoc == Tok("begin{document}", <<>>)            \* \begin{document}
DraftMark == Tok("textbf", <<"--- DRAFT MODE ACTIVE ---">>)
Bibliography(b) == Tok("bibliography", <<b>>)       \* \bibliography{b}
PrintBib == Tok("printbibliography", <<>>)          \* \printbibliography
Txt(t) == Tok("text", <<t>>)

\* Unit names used in the model's texts, and the option strings of \documentclass.
UnitNames == {"A", "B", "C"}
TexPaths == {"main.tex"} \cup {u \o ".tex" : u \in UnitNames}

\* compiler.rs:218, 245, 345  if !p.ends_with(".tex") { p + ".tex" }
TexPath(u) == IF u \in TexPaths THEN u ELSE u \o ".tex"

\* compiler.rs:236  active.strip_suffix(".tex").unwrap_or(active)
StripTex(p) ==
    IF \E u \in UnitNames : p = u \o ".tex"
    THEN CHOOSE u \in UnitNames : p = u \o ".tex"
    ELSE IF p = "main.tex" THEN "main" ELSE p

\* str::trim on an option string
TrimOpt(o) == CASE o = " 12pt" -> "12pt" [] o = " draft" -> "draft" [] OTHER -> o

\* str::contains("draft") on an option string
OptHasDraft(o) == o \in {"draft", " draft", "draftcls"}

\* The elements of a finite set of numbers, in increasing order
RECURSIVE SortRange(_, _, _)
SortRange(S, lo, hi) ==
    IF lo > hi THEN <<>>
    ELSE IF lo = hi THEN (IF lo \in S THEN <<lo>> ELSE <<>>)
    ELSE SortRange(S, lo, (lo + hi) \div 2) \o SortRange(S, (lo + hi) \div 2 + 1, hi)

SortSet(S) ==
    IF S = {} THEN <<>>
    ELSE SortRange(S, CHOOSE x \in S : \A y \in S : x <= y,
                      CHOOSE x \in S : \A y \in S : y <= x)

\* str::find: index of the first token equal to tok, 0 if none
Find(t, tok) ==
    LET idx == SortSet({i \in 1..Len(t) : t[i] = tok})
    IN IF idx = <<>> THEN 0 ELSE idx[1]

\* String::insert_str at token position pos (1-based: before t[pos])
InsertAt(t, pos, ins) == SubSeq(t, 1, pos - 1) \o ins \o SubSeq(t, pos, Len(t))

\* str::contains(pat) for a token sequence pat
ContainsSeq(t, pat) ==
    \E i \in 1..(Len(t) - Len(pat) + 1) : SubSeq(t, i, i + Len(pat) - 1) = pat

\* str::replace(pat, ""): every non-overlapping occurrence removed, left to right
RECURSIVE RemoveAll(_, _)
RemoveAll(t, pat) ==
    IF Len(t) < Len(pat) THEN t
    ELSE IF SubSeq(t, 1, Len(pat)) = pat
         THEN RemoveAll(SubSeq(t, Len(pat) + 1, Len(t)), pat)
         ELSE <<t[1]>> \o RemoveAll(Tail(t), pat)

\* str::replace(old, new) where old is one whole command
ReplaceTok(t, old, new) == [i \in 1..Len(t) |-> IF t[i] = old THEN new ELSE t[i]]

\* Arguments of the tokens of kind in ks, in order of appearance
ArgsOf(t, ks) ==
    LET idx == SortSet({i \in 1..Len(t) : t[i].k \in ks})
    IN [i \in 1..Len(idx) |-> t[idx[i]].a[1]]

SeqToSet(q) == {q[i] : i \in 1..Len(q)}

\* Iterator::filter: the elements of q at the positions in S, in order
FilterSeq(q, S) ==
    LET idx == SortSet(S)
    IN [i \in 1..Len(idx) |-> q[idx[i]]]

\* str::lines(): the text split at newlines; a final newline opens no new line
\* (cur is the line begun before t)
SplitLines(t, cur) ==
    LET all == cur \o t
        Cut(nl) ==
            [k \in 1..(IF nl = <<>> THEN (IF all = <<>> THEN 0 ELSE 1)
                       ELSE IF nl[Len(nl)] = Len(all) THEN Len(nl) ELSE Len(nl) + 1) |->
                SubSeq(all, IF k = 1 THEN 1 ELSE nl[k - 1] + 1,
                            IF k <= Len(nl) THEN nl[k] - 1 ELSE Len(all))]
    IN Cut(SortSet({i \in 1..Len(all) : all[i] = NL}))

\* Vec<String>::join("\n")
RECURSIVE JoinLines(_)
JoinLines(ls) ==
    IF ls = <<>> THEN <<>>
    ELSE IF Len(ls) = 1 THEN ls[1]
         ELSE JoinLines(SubSeq(ls, 1, Len(ls) \div 2)) \o <<NL>>
              \o JoinLines(SubSeq(ls, Len(ls) \div 2 + 1, Len(ls)))

Take(q, n) == SubSeq(q, 1, IF Len(q) < n THEN Len(q) ELSE n)

(***************************************************************************)
(* Hashes.  ahash values are kept symbolic: AHash(x) stands for the 64-bit *)
(* hash of x and differs for different x; ZeroHash is the number 0 that    *)
(* the code uses for "no hash yet".                                        *)
(***************************************************************************)
AHash(x) == <<x>>
ZeroHash == <<>>

(***************************************************************************)
(* The compiler (compiler.rs).  The virtual file store v is a function from *)
(* the paths that were written to their texts (vfs.rs).                     *)
(***************************************************************************)
Backends == {"Internal", "Tectonic", "Latexmk"}     \* config.rs:2-6

InternalLines == 60      \* compiler.rs:354  latex.lines().take(60)

DraftInjection == <<NL, DraftMark, NL>>             \* compiler.rs:304, 331

\* Index of the first \documentclass command of t among the kinds ks, 0 if none
FirstDocClass(t, ks) ==
    LET idx == SortSet({j \in 1..Len(t) : t[j].k \in ks})
    IN IF idx = <<>> THEN 0 ELSE idx[1]

\* compiler.rs:285-308  draft set
ApplyDraftOn(t) ==
    LET i == FirstDocClass(t, {"documentclass", "documentclass[]"})
        t1 == IF i = 0 \/ (\E o \in SeqToSet(t[i].a) : OptHasDraft(o)) THEN t
              ELSE ReplaceTok(t, t[i], DocClassOpt(<<"draft">> \o t[i].a))
        pos == Find(t1, BeginDoc)
    IN IF pos = 0 \/ ContainsSeq(t1, DraftInjection) THEN t1
       ELSE InsertAt(t1, pos + 1, DraftInjection)

\* compiler.rs:309-332  draft clear
ApplyDraftOff(t) ==
    LET i == FirstDocClass(t, {"documentclass[]"})
        kept == IF i = 0 THEN <<>>
                ELSE FilterSeq([j \in 1..Len(t[i].a) |-> TrimOpt(t[i].a[j])],
                               {j \in 1..Len(t[i].a) : TrimOpt(t[i].a[j]) # "draft"})
        t1 == IF i = 0 \/ ~(\E o \in SeqToSet(t[i].a) : OptHasDraft(o)) THEN t
              ELSE ReplaceTok(t, t[i], IF kept = <<>> THEN DocClass ELSE DocClassOpt(kept))
    IN RemoveAll(t1, DraftInjection)

\* compiler.rs:284-334
ApplyDraftMode(t, draft) == IF draft THEN ApplyDraftOn(t) ELSE ApplyDraftOff(t)

\* compiler.rs:336-350  depth-first, out and visited threaded through the calls
RECURSIVE CollectAllDependencies(_, _, _, _)
RECURSIVE CollectSubs(_, _, _, _)
CollectAllDependencies(path, v, out, visited) ==
    IF path \in visited THEN [out |-> out, visited |-> visited]
    ELSE IF path \notin DOMAIN v THEN [out |-> out, visited |-> visited \cup {path}]
         ELSE CollectSubs(ArgsOf(v[path], {"include", "input"}), v, out,
                          visited \cup {path})
CollectSubs(subs, v, out, visited) ==
    IF subs = <<>> THEN [out |-> out, visited |-> visited]
    ELSE LET sub == TexPath(Head(subs))
             r == CollectAllDependencies(sub, v, Append(out, sub), visited)
         IN CollectSubs(Tail(subs), v, r.out, r.visited)

DepsOf(path, v) == CollectAllDependencies(path, v, <<>>, {}).out

\* The FileDelta of a path whose content hashes to something new
Delta(fh, path, v) ==
    [path |-> path, old_hash |-> IF path \in DOMAIN fh THEN fh[path] ELSE ZeroHash,
     new_hash |-> AHash(v[path]), content_size |-> Len(v[path])]

\* C15 mutant: every observation reports a change
ObserveAlways(fh, path, v) ==
    IF path \notin DOMAIN v THEN [fh |-> fh, deltas |-> <<>>]
    ELSE [fh |-> [q \in DOMAIN fh \cup {path} |->
                     IF q = path THEN AHash(v[path]) ELSE fh[q]],
          deltas |-> <<Delta(fh, path, v)>>]

\* C16 mutant: a change is reported but the new hash is not stored
ObserveNoStore(fh, path, v) ==
    IF path \notin DOMAIN v THEN [fh |-> fh, deltas |-> <<>>]
    ELSE IF path \notin DOMAIN fh THEN [fh |-> fh, deltas |-> <<Delta(fh, path, v)>>]
    ELSE IF fh[path] # AHash(v[path]) THEN [fh |-> fh, deltas |-> <<Delta(fh, path, v)>>]
    ELSE [fh |-> fh, deltas |-> <<>>]

\* compiler.rs:178-208  one path through the change detector: fh is file_hashes
Observe(fh, path, v) ==
    IF path \notin DOMAIN v THEN [fh |-> fh, deltas |-> <<>>]
    ELSE LET new_hash == AHash(v[path])
             old_hash == IF path \in DOMAIN fh THEN fh[path] ELSE ZeroHash
             changed == path \notin DOMAIN fh \/ fh[path] # new_hash
         IN IF changed
            THEN [fh |-> [q \in DOMAIN fh \cup {path} |->
                              IF q = path THEN new_hash ELSE fh[q]],
                  deltas |-> <<[path |-> path, old_hash |-> old_hash,
                                new_hash |-> new_hash, content_size |-> Len(v[path])]>>]
            ELSE [fh |-> fh, deltas |-> <<>>]

\* compiler.rs:176-211  every gathered path observed, the deltas in list order
RECURSIVE DetectChanges(_, _, _)
DetectChanges(paths, v, fh) ==
    IF paths = <<>> THEN [fh |-> fh, deltas |-> <<>>]
    ELSE LET one == Observe(fh, Head(paths), v)
             rest == DetectChanges(Tail(paths), v, one.fh)
         IN [fh |-> rest.fh, deltas |-> one.deltas \o rest.deltas]

\* C17 mutant: the dependencies of a unit are not looked at
AffectedUnitsOwnFile(units, changed, v) ==
    FilterSeq(units, {i \in 1..Len(units) : TexPath(units[i]) \in changed})

\* compiler.rs:216-232  the units whose file, or a dependency of it, changed
AffectedUnits(units, changed, v) ==
    FilterSeq(units, {i \in 1..Len(units) :
        \/ TexPath(units[i]) \in changed
        \/ \E d \in SeqToSet(DepsOf(TexPath(units[i]), v)) : d \in changed})

\* compiler.rs:248  content_str.contains("\\bibliography") ||
\* content_str.contains("\\printbibliography"): a substring test, which
\* \bibliographystyle passes as well
HasBibCommand(t) ==
    \E i \in 1..Len(t) :
        t[i].k \in {"bibliography", "bibliographystyle", "printbibliography"}

\* C18 mutant: no bibliography unit is appended
AppendBibUnitsNone(units, acc, v) == acc

\* compiler.rs:244-255  units carrying a bibliography appended to acc, in order
RECURSIVE AppendBibUnits(_, _, _)
AppendBibUnits(units, acc, v) ==
    IF units = <<>> THEN acc
    ELSE LET u == Head(units)
             add == /\ TexPath(u) \in DOMAIN v
                    /\ HasBibCommand(v[TexPath(u)])
                    /\ u \notin SeqToSet(acc)
         IN AppendBibUnits(Tail(units), IF add THEN Append(acc, u) ELSE acc, v)

\* C23 mutant: outside focus mode the active unit is not added
FocusAndPriorityNoPush(units, affected, focus_mode, active, v) ==
    IF active = <<>> THEN affected
    ELSE IF StripTex(active[1]) \notin SeqToSet(units) THEN affected
    ELSE IF focus_mode THEN AppendBibUnits(units, <<StripTex(active[1])>>, v)
    ELSE affected

\* C20 mutant: the active file and the focus flag are not looked at
FocusAndPriorityOff(units, affected, focus_mode, active, v) == affected

\* compiler.rs:234-263  active is Option<String>: <<>> or <<path>>
FocusAndPriority(units, affected, focus_mode, active, v) ==
    IF active = <<>> THEN affected
    ELSE LET active_base == StripTex(active[1])
         IN IF active_base \notin SeqToSet(units) THEN affected
            ELSE IF focus_mode THEN AppendBibUnits(units, <<active_base>>, v)
            ELSE IF active_base \in SeqToSet(affected) THEN affected
            ELSE Append(affected, active_base)

\* C30 mutant: the directive goes behind the marker instead of before it
InjectPosBehind(latex) ==
    IF Find(latex, BeginDoc) = 0 THEN 0 ELSE Find(latex, BeginDoc) + 1

\* compiler.rs:274  optimized_latex.find("\\begin{document}"), 0 for None
InjectPos(latex) == Find(latex, BeginDoc)

\* C24 mutant: a root without units is not told apart
NoUnitsNever(units) == FALSE

\* compiler.rs:156  top_level_units.is_empty()
NoUnits(units) == units = <<>>

\* compiler.rs:147-282  (rewritten text, is_incremental, deltas) and file_hashes
\* after; units and affected are top_level_units and affected_units as they
\* stand at line 265
OptimizeLatex(latex, draft, focus_mode, v, active, fh) ==
    LET units == ArgsOf(latex, {"include"})
    IN IF NoUnits(units)
       THEN [latex |-> ApplyDraftMode(latex, draft), is_incremental |-> FALSE,
             deltas |-> <<>>, fh |-> fh, units |-> units, affected |-> <<>>]
       ELSE LET Changed(det) == {det.deltas[i].path : i \in 1..Len(det.deltas)}
                Rewritten(det, affected, pos, inject) ==
                    [latex |-> ApplyDraftMode(
                                  IF inject
                                  THEN InsertAt(latex, pos, <<IncludeOnly(affected), NL>>)
                                  ELSE latex, draft),
                     is_incremental |-> inject, deltas |-> det.deltas, fh |-> det.fh,
                     units |-> units, affected |-> affected]
                Located(det, affected, pos) ==
                    Rewritten(det, affected, pos,
                              affected # <<>> /\ Len(affected) < Len(units) /\ pos # 0)
                Detected(det) ==
                    Located(det,
                            FocusAndPriority(units, AffectedUnits(units, Changed(det), v),
                                             focus_mode, active, v),
                            InjectPos(latex))
            IN Detected(DetectChanges(DepsOf("main.tex", v), v, fh))

\* The output documents.  body is what the bytes are made from, var tells apart
\* two outputs an external engine makes of the same body.
Pdf(eng, body, var) == [eng |-> eng, body |-> body, var |-> var]

\* C28 mutant: every line of the source goes into the output
CompileInternalAll(latex) ==
    Pdf("internal", JoinLines(SplitLines(latex, <<>>)), 0)

\* compiler.rs:352-377  the first 60 lines, joined
CompileInternal(latex) ==
    Pdf("internal", JoinLines(Take(SplitLines(latex, <<>>), InternalLines)), 0)

(***************************************************************************)
(* The daemon (compiler_daemon.rs)                                         *)
(***************************************************************************)
Variants == {1, 2}       \* outputs tectonic may make of one source (e.g. timestamps)

NoPdf == Pdf("none", <<>>, 0)

\* The texts and requests the model feeds in
RootAB == <<DocClass, NL, BeginDoc, NL, Include("A"), Include("B")>>
UnitA == <<Txt("a1")>>
UnitB == <<Txt("b1"), PrintBib>>
UnitB2 == <<Txt("b2"), PrintBib>>

InitialVfs ==
    [p \in {"main.tex", "A.tex", "B.tex"} |->
        IF p = "main.tex" THEN RootAB ELSE IF p = "A.tex" THEN UnitA ELSE UnitB]

\* vfs.rs:16-18  write_file
VfsWriteFile(v, path, text) ==
    [q \in DOMAIN v \cup {path} |-> IF q = path THEN text ELSE v[q]]

\* What other tasks write while the daemon runs (main.rs:397, 420): an edit of B.tex
WriteInputs == {<<"B.tex", UnitB2>>}

Request(latex, b, draft, focus_mode, active) ==
    [latex |-> latex, backend |-> b, draft |-> draft, focus_mode |-> focus_mode,
     active_file |-> active]

RequestInputs ==
    {Request(RootAB, b, d, FALSE, <<"A.tex">>) : b \in Backends, d \in BOOLEAN}

\* latexmk.rs:40-46  the reader's classification of one stdout line; a line is
\* given by the markers it contains
Line(all, utd, run, err) == [all |-> all, utd |-> utd, run |-> run, err |-> err]
ClassifyLineErrFirst(l) ==
    IF l.err THEN <<"BuildFinished(false)">>
    ELSE IF l.all /\ l.utd THEN <<"BuildFinished(true)">>
    ELSE IF l.run THEN <<"BuildStarted">>
    ELSE <<>>

\* latexmk.rs:40-46
ClassifyLine(l) ==
    IF l.all /\ l.utd THEN <<"BuildFinished(true)">>
    ELSE IF l.run THEN <<"BuildStarted">>
    ELSE IF l.err THEN <<"BuildFinished(false)">>
    ELSE <<>>

\* C10 mutant: the draft flag does not change the backend
CoerceBackendKeep(b, draft) == b

\* compiler_daemon.rs:71-74
CoerceBackend(b, draft) == IF draft THEN "Internal" ELSE b

\* C8 mutant: the cache is never hit
CacheGetNever(c, key) == <<>>

\* compiler.rs:104  self.cache.get(&final_hash)
CacheGet(c, key) == IF key \in DOMAIN c THEN <<c[key]>> ELSE <<>>

\* C9 mutant: the cache is written whatever the backend returned
CacheInsertAlways(c, key, ok, pdf) ==
    [q \in DOMAIN c \cup {key} |-> IF q = key THEN pdf ELSE c[q]]

\* compiler.rs:115-117  `?` returns before the insert when the backend failed
CacheInsert(c, key, ok, pdf) ==
    IF ok THEN [q \in DOMAIN c \cup {key} |-> IF q = key THEN pdf ELSE c[q]] ELSE c

\* compiler.rs:91-119  Compiler::compile.  engOk and var are what the tectonic
\* process, if it is run, does: whether it succeeds, and which output it makes.
Compile(latex, draft, focus_mode, v, active, fh, c, b, engOk, var) ==
    LET Run(text) ==
            IF b = "Internal" THEN [ok |-> TRUE, pdf |-> CompileInternal(text)]
            ELSE IF engOk THEN [ok |-> TRUE, pdf |-> Pdf("tectonic", text, var)]
            ELSE [ok |-> FALSE, pdf |-> NoPdf]
        Ran(o, key, run) ==
            [ok |-> run.ok, pdf |-> run.pdf, cache |-> CacheInsert(c, key, run.ok, run.pdf),
             fh |-> o.fh, key |-> key, invoked |-> TRUE]
        Looked(o, key, hit) ==
            IF hit # <<>>
            THEN [ok |-> TRUE, pdf |-> hit[1], cache |-> c, fh |-> o.fh,
                  key |-> key, invoked |-> FALSE]
            ELSE IF b = "Latexmk"
            THEN [ok |-> FALSE, pdf |-> NoPdf, cache |-> c, fh |-> o.fh,
                  key |-> key, invoked |-> FALSE]
            ELSE Ran(o, key, Run(o.latex))
        Hashed(o, key) == Looked(o, key, CacheGet(c, key))
        Optimized(o) == Hashed(o, AHash(<<o.latex, b>>))
    IN Optimized(OptimizeLatex(latex, draft, focus_mode, v, active, fh))

\* C7 mutant: the revision is bumped on every reply
UpdateRevisionAlways(rev, lph, pdf) ==
    [revision |-> rev + 1, last_pdf_hash |-> AHash(pdf)]

\* C34 mutant: a new output is remembered but the revision is not bumped
UpdateRevisionKeep(rev, lph, pdf) ==
    [revision |-> rev, last_pdf_hash |-> AHash(pdf)]

\* compiler_daemon.rs:143-151
UpdateRevision(rev, lph, pdf) ==
    IF AHash(pdf) # lph THEN [revision |-> rev + 1, last_pdf_hash |-> AHash(pdf)]
    ELSE [revision |-> rev, last_pdf_hash |-> lph]

\* What the caller of a request got: st is "parked" while the sender sits in
\* pending_response, "replied" once a CompileResult was sent, "dropped" once the
\* sender was dropped without one.  draft is the request's flag, backend the
\* backend the daemon took for it (compiler_daemon.rs:71-75).
Response(req, b, st, pdf, rev, syn) ==
    [draft |-> req.draft, backend |-> b, st |-> st, pdf |-> pdf, revision |-> rev,
     synctex_data |-> syn]

\* compiler_daemon.rs:121-127  which auxiliary file is read, "none" if neither
ReadSynctex(files) ==
    IF "main.synctex.gz" \in files THEN "main.synctex.gz"
    ELSE IF "main.synctex" \in files THEN "main.synctex"
    ELSE "none"

\* C35 mutant: the sender taken out of the slot is kept alive
DropParkedNot(rs, p) == rs

\* The sender that was in pending_response is dropped: when the slot is
\* assigned, and when the sender taken out of it goes out of scope unused
DropParked(rs, p) == IF p = NoReq THEN rs ELSE [rs EXCEPT ![p].st = "dropped"]

\* compiler_daemon.rs:42-63  CompilerDaemon::new, spawn having succeeded or failed
DaemonInit ==
    /\ vfs = InitialVfs
    /\ latexmk \in BOOLEAN
    /\ event_rx = <<>>
    /\ pending_response = NoReq
    /\ revision = 0
    /\ last_pdf_hash = ZeroHash
    /\ cache = <<>>
    /\ backend = "Internal"
    /\ active_file = <<>>
    /\ file_hashes = <<>>
    /\ fs_main_tex = <<>>
    /\ fs_main_pdf = <<>>
    /\ fs_synctex = {"main.synctex"}
    /\ lmk_build = <<>>
    /\ triggers = 0
    /\ builds = 0
    /\ responses = <<>>
    /\ compileLog = <<>>

\* C12 mutant: the text on disk is left as it was
WriteMainTexStale(file, text, wrote) == file

\* compiler_daemon.rs:92  fs::write("main.tex", optimized_latex): the file after
WriteMainTex(file, text, wrote) == IF wrote THEN <<text>> ELSE file

\* compiler_daemon.rs:78-97  a request for latexmk with the process alive.
\* wrote: whether fs::write("main.tex") succeeded.
RequestLatexmk(req, wrote) ==
    \E o \in {OptimizeLatex(req.latex, req.draft, req.focus_mode, vfs,
                             req.active_file, file_hashes)} :
       /\ file_hashes' = o.fh
       /\ fs_main_tex' = WriteMainTex(fs_main_tex, o.latex, wrote)
       /\ IF wrote
          THEN /\ triggers' = triggers + 1
               /\ pending_response' = Len(responses) + 1
               /\ responses' = Append(DropParked(responses, pending_response),
                                      Response(req, "Latexmk", "parked", NoPdf, 0, "none"))
          ELSE /\ responses' = Append(responses,
                                      Response(req, "Latexmk", "dropped", NoPdf, 0, "none"))
               /\ UNCHANGED <<triggers, pending_response>>
       /\ UNCHANGED <<cache, revision, last_pdf_hash, compileLog>>

\* compiler_daemon.rs:99-109  every other request: compile and reply.
\* b is the backend after the draft coercion.
RequestCompile(req, b, engOk, var) ==
    \E r \in {Compile(req.latex, req.draft, req.focus_mode, vfs, req.active_file,
                       file_hashes, cache, b, engOk, var)} :
    \E u \in {UpdateRevision(revision, last_pdf_hash, r.pdf)} :
       /\ file_hashes' = r.fh
       /\ cache' = r.cache
       /\ compileLog' = Append(compileLog, [key |-> r.key, backend |-> b, ok |-> r.ok,
                                            invoked |-> r.invoked, pdf |-> r.pdf])
       /\ IF r.ok
          THEN /\ revision' = u.revision
               /\ last_pdf_hash' = u.last_pdf_hash
               /\ responses' = Append(responses,
                                  Response(req, b, "replied", r.pdf, u.revision, "none"))
          ELSE /\ responses' = Append(responses,
                                      Response(req, b, "dropped", NoPdf, 0, "none"))
               /\ UNCHANGED <<revision, last_pdf_hash>>
       /\ UNCHANGED <<fs_main_tex, triggers, pending_response>>

\* compiler_daemon.rs:68-113  Some(request) = self.receiver.recv()
DaemonRequest ==
    /\ Len(responses) < MaxReq
    /\ \E req \in RequestInputs :
          LET b == CoerceBackend(req.backend, req.draft)
          IN /\ backend' = b
             /\ active_file' = req.active_file
             /\ IF b = "Latexmk" /\ latexmk
                THEN \E wrote \in BOOLEAN : RequestLatexmk(req, wrote)
                ELSE IF b = "Tectonic"
                THEN \E engOk \in BOOLEAN, var \in Variants :
                        (engOk \/ var = 1) /\ RequestCompile(req, b, engOk, var)
                ELSE RequestCompile(req, b, TRUE, 1)
    /\ UNCHANGED <<vfs, latexmk, event_rx, fs_main_pdf, fs_synctex, lmk_build, builds,
                   dvars, xvars>>

\* C11 mutant: every BuildFinished event resolves the parked response
IsBuildSuccessAny(ev) == ev \in {"BuildFinished(true)", "BuildFinished(false)"}

\* compiler_daemon.rs:116-117  LatexmkEvent::BuildFinished(success) with success
IsBuildSuccess(ev) == ev = "BuildFinished(true)"

\* compiler_daemon.rs:114-137  Some(event) = self.event_rx.recv()
\* readOk: whether fs::read("main.pdf") succeeded; it cannot if there is no file.
DaemonEvent ==
    /\ event_rx # <<>>
    /\ event_rx' = Tail(event_rx)
    /\ \E readOk \in BOOLEAN :
          /\ readOk => fs_main_pdf # <<>>
          /\ IF IsBuildSuccess(Head(event_rx)) /\ pending_response # NoReq
             THEN /\ pending_response' = NoReq
                  /\ IF readOk
                     THEN LET pdf == fs_main_pdf[1]
                              u == UpdateRevision(revision, last_pdf_hash, pdf)
                          IN /\ revision' = u.revision
                             /\ last_pdf_hash' = u.last_pdf_hash
                             /\ responses' =
                                  [responses EXCEPT ![pending_response] =
                                      [@ EXCEPT !.st = "replied", !.pdf = pdf,
                                                !.revision = u.revision,
                                                !.synctex_data = ReadSynctex(fs_synctex)]]
                     ELSE /\ responses' = DropParked(responses, pending_response)
                          /\ UNCHANGED <<revision, last_pdf_hash>>
             ELSE UNCHANGED <<pending_response, revision, last_pdf_hash, responses>>
    /\ UNCHANGED <<vfs, latexmk, cache, backend, active_file, file_hashes, fs_main_tex,
                   fs_main_pdf, fs_synctex, lmk_build, triggers, builds, compileLog, dvars, xvars>>

(***************************************************************************)
(* The latexmk process and the reader task (latexmk.rs:19-48).  The process *)
(* runs in -pvc mode: it builds main.tex when it starts and whenever it     *)
(* finds the file changed or reads a newline, so a build may start at any   *)
(* time.  Each build prints a "Run number" line and then ends with an       *)
(* "All targets ... are up-to-date" line, having written main.pdf, or with  *)
(* an "Errors during processing" line.  The output of a build is taken to   *)
(* be determined by the text the build read.                                *)
(***************************************************************************)
LmkBuildStart ==
    /\ latexmk
    /\ lmk_build = <<>>
    /\ builds < MaxBuilds
    /\ Len(event_rx) < EventCap
    /\ builds' = builds + 1
    /\ lmk_build' = <<fs_main_tex>>
    /\ event_rx' = event_rx \o ClassifyLine(Line(FALSE, FALSE, TRUE, FALSE))
    /\ UNCHANGED <<vfs, latexmk, pending_response, revision, last_pdf_hash, cache, backend,
                   active_file, file_hashes, fs_main_tex, fs_main_pdf, fs_synctex,
                   triggers, responses, compileLog, dvars, xvars>>

LmkBuildFinish ==
    /\ lmk_build # <<>>
    /\ Len(event_rx) < EventCap
    /\ lmk_build' = <<>>
    /\ \E ok \in BOOLEAN :
          /\ ok => lmk_build[1] # <<>>
          /\ IF ok
             THEN /\ fs_main_pdf' = <<Pdf("latexmk", lmk_build[1][1], 1)>>
                  /\ event_rx' = event_rx \o ClassifyLine(Line(TRUE, TRUE, FALSE, FALSE))
             ELSE /\ fs_main_pdf' = fs_main_pdf
                  /\ event_rx' = event_rx \o ClassifyLine(Line(FALSE, FALSE, FALSE, TRUE))
    /\ UNCHANGED <<vfs, latexmk, pending_response, revision, last_pdf_hash, cache, backend,
                   active_file, file_hashes, fs_main_tex, fs_synctex, triggers, builds,
                   responses, compileLog, dvars, xvars>>

\* Another task writes a file of the store (main.rs:100, 397, 420)
VfsWrite ==
    /\ \E w \in WriteInputs :
          /\ vfs[w[1]] # w[2]
          /\ vfs' = VfsWriteFile(vfs, w[1], w[2])
    /\ UNCHANGED <<latexmk, event_rx, pending_response, revision, last_pdf_hash, cache,
                   backend, active_file, file_hashes, fs_main_tex, fs_main_pdf, fs_synctex,
                   lmk_build, triggers, builds, responses, compileLog, dvars, xvars>>

(***************************************************************************)
(* Calls of optimize_latex (compiler.rs:147-282) on a compiler of its own,  *)
(* between edits of the files in the store.                                 *)
(***************************************************************************)
RootABC == <<DocClass, NL, BeginDoc, NL, Include("A"), Include("B"), Include("C")>>
RootAA == <<DocClass, NL, BeginDoc, NL, Include("A"), Include("A")>>
RootNoBegin == <<DocClass, NL, Include("A"), Include("B")>>
RootPlain == <<DocClass, NL, BeginDoc, NL, Input("A"), Txt("t")>>
RootTwoBegin == <<DocClass, NL, BeginDoc, NL, Include("A"), Include("B"), NL, BeginDoc>>
UnitAD == <<Txt("a1"), Input("D")>>
UnitAD2 == <<Txt("a2"), Input("D")>>
UnitC == <<Txt("c1")>>
UnitD == <<Txt("d1")>>
UnitD2 == <<Txt("d2")>>

\* The store when the compiler is made: C.tex has not been written yet
OptInitialVfs ==
    [p \in {"main.tex", "A.tex", "B.tex", "D.tex"} |->
        CASE p = "main.tex" -> RootABC
          [] p = "A.tex" -> UnitAD
          [] p = "B.tex" -> UnitB
          [] OTHER -> UnitD]

\* The edits made to the store (main.rs:392, 422)
OptWrites ==
    {<<"A.tex", UnitAD2>>, <<"B.tex", UnitB2>>, <<"C.tex", UnitC>>, <<"D.tex", UnitD2>>,
     <<"main.tex", RootAB>>}

\* The calls made: the root text, the flags, and compiler.active_file
OptInputs ==
    {Request(latex, "Internal", draft, focus, active) :
        latex \in {RootAB, RootABC, RootAA, RootNoBegin, RootPlain, RootTwoBegin},
        draft \in BOOLEAN, focus \in BOOLEAN, active \in {<<>>, <<"A.tex">>}}

\* compiler.rs:39-47  Compiler::new: an empty hash table, no active file
InitOptimize ==
    /\ DebouncerInit
    /\ vfs = OptInitialVfs
    /\ file_hashes = <<>> /\ active_file = <<>>
    /\ opt_call = <<>>
    /\ scan_nodes = <<>> /\ scan_visited = {}
    /\ IdleY
    /\ latexmk = FALSE /\ event_rx = <<>> /\ pending_response = NoReq
    /\ revision = 0 /\ last_pdf_hash = ZeroHash /\ cache = <<>>
    /\ backend = "Internal"
    /\ fs_main_tex = <<>> /\ fs_main_pdf = <<>> /\ fs_synctex = {}
    /\ lmk_build = <<>> /\ triggers = 0 /\ builds = 0
    /\ responses = <<>> /\ compileLog = <<>>

\* compiler_daemon.rs:76, compiler.rs:147  active_file is set and optimize_latex
\* called; opt_call keeps the arguments and what the call returned
OptCall ==
    /\ \E inp \in OptInputs :
       \E o \in {OptimizeLatex(inp.latex, inp.draft, inp.focus_mode, vfs,
                               inp.active_file, file_hashes)} :
          /\ active_file' = inp.active_file
          /\ file_hashes' = o.fh
          /\ opt_call' = <<[latex |-> inp.latex, draft |-> inp.draft,
                            focus_mode |-> inp.focus_mode,
                            active_file |-> inp.active_file, out |-> o]>>
    /\ UNCHANGED <<vfs, latexmk, event_rx, pending_response, revision, last_pdf_hash,
                   cache, backend, fs_main_tex, fs_main_pdf, fs_synctex, lmk_build,
                   triggers, builds, responses, compileLog, scan_nodes, scan_visited,
                   dvars, yvars>>

\* Another task writes a file of the store; the call recorded in opt_call is
\* then no longer the latest thing that happened
OptEdit ==
    /\ \E w \in OptWrites :
          /\ IF w[1] \in DOMAIN vfs THEN vfs[w[1]] # w[2] ELSE TRUE
          /\ vfs' = VfsWriteFile(vfs, w[1], w[2])
    /\ opt_call' = <<>>
    /\ UNCHANGED <<latexmk, event_rx, pending_response, revision, last_pdf_hash, cache,
                   backend, active_file, file_hashes, fs_main_tex, fs_main_pdf,
                   fs_synctex, lmk_build, triggers, builds, responses, compileLog,
                   scan_nodes, scan_visited, dvars, yvars>>

NextOptimize == OptCall \/ OptEdit

SpecOptimize == InitOptimize /\ [][NextOptimize]_vars

(***************************************************************************)
(* The dependency and outline scanner (dependencies.rs).  A command of     *)
(* DEP_REGEX is a token whose a holds the pieces of its argument between    *)
(* the commas, as written (a piece may carry blanks or be empty).  Names   *)
(* are opaque: which names end in an extension, and which contain a word,  *)
(* is told by the sets below for the names the model uses.                 *)
(***************************************************************************)
UsePackage(ps) == Tok("usepackage", ps)             \* \usepackage{p1,p2}
Heading(k, title) == Tok(k, <<title>>)              \* \section{title}, ...
OpenHeading(k) == Tok(k, <<>>)                      \* \section{ with no closing brace

HeadingKinds == {"part", "chapter", "section", "subsection"}
DepKinds == {"input", "include", "bibliography", "usepackage"}

\* dependencies.rs:51-54  the level of a heading prefix
HeadingLevel(k) ==
    CASE k = "part" -> 0 [] k = "chapter" -> 1 [] k = "section" -> 2 [] OTHER -> 3

\* dependencies.rs:49-68  one item per line that starts with a closed heading
OutlineOf(file_name, text) ==
    LET Items(ls, idx) ==
            [n \in 1..Len(idx) |->
                [title |-> ls[idx[n]][1].a[1], level |-> HeadingLevel(ls[idx[n]][1].k),
                 file_name |-> file_name, line |-> idx[n]]]
        Lines(ls) ==
            Items(ls, SortSet({i \in 1..Len(ls) :
                                  /\ ls[i] # <<>>
                                  /\ ls[i][1].k \in HeadingKinds
                                  /\ ls[i][1].a # <<>>}))
    IN Lines(SplitLines(text, <<>>))

\* str::trim of a piece of an argument
TrimPiece(p) == CASE p = " y" -> "y" [] p = " " -> "" [] OTHER -> p

\* str::ends_with(ext) for the names the model uses
EndsWith(p, ext) ==
    CASE ext = ".tex" -> p \in TexPaths
      [] ext = ".bib" -> p \in {"refs.bib"}
      [] OTHER -> p \in {"x.sty"}

\* dependencies.rs:86-92  if !path.ends_with(ext) { path.push_str(ext) }
WithExt(p, ext) == IF EndsWith(p, ext) THEN p ELSE p \o ext

\* str::contains(word) on a name: of the names the model uses only the name
\* that is the word itself contains it
NameContains(n, word) == n = word

\* dependencies.rs:86, 88  matched_cmd.contains(word): matched_cmd is the whole
\* match, the command with its braces and its argument
CmdContains(tok, word) ==
    tok.k = word \/ \E i \in 1..Len(tok.a) : NameContains(TrimPiece(tok.a[i]), word)

\* dependencies.rs:86-92  the extension chosen for the pieces of one command
ExtOf(tok) ==
    IF CmdContains(tok, "bibliography") THEN ".bib"
    ELSE IF CmdContains(tok, "usepackage") THEN ".sty"
    ELSE ".tex"

\* dependencies.rs:80-96  the paths one matched command stands for, in order
DepPaths(tok) ==
    LET Named(kept) == [i \in 1..Len(kept) |-> WithExt(kept[i], ExtOf(tok))]
        Trimmed(parts) == Named(FilterSeq(parts, {i \in 1..Len(parts) : parts[i] # ""}))
    IN Trimmed([i \in 1..Len(tok.a) |-> TrimPiece(tok.a[i])])

\* dependencies.rs:70-98  the paths of the children of a file, in order
RECURSIVE ChildPaths(_)
ChildPaths(t) ==
    IF t = <<>> THEN <<>>
    ELSE (IF Head(t).k \in DepKinds THEN DepPaths(Head(t)) ELSE <<>>) \o ChildPaths(Tail(t))

\* dependencies.rs:34-38  a node as scan_recursive makes it; parent is the node
\* whose children it will be collected into (0 for the root), st where the
\* call stands: "new" before the visited test, "checked" after passing it,
\* "done" when it has returned.
ScanNode(name, parent) ==
    [name |-> name, parent |-> parent, st |-> "new", expanded |-> FALSE,
     outline |-> <<>>]

\* C13 mutant: every name counts as visited
IsVisitedAlways(name, visited) == TRUE

\* C14 mutant: no name counts as visited
IsVisitedNever(name, visited) == FALSE

\* dependencies.rs:40  visited.contains(file_name)
IsVisited(name, visited) == name \in visited

MaxNodes == 12      \* no scan of the model makes more nodes than this

\* dependencies.rs:40-42  the visited test of one call
ScanCheck ==
    /\ \E i \in 1..Len(scan_nodes) :
          /\ scan_nodes[i].st = "new"
          /\ scan_nodes' =
                [scan_nodes EXCEPT ![i].st =
                    IF IsVisited(scan_nodes[i].name, scan_visited) THEN "done"
                    ELSE "checked"]
    /\ UNCHANGED <<scan_visited, opt_call, dvars, svars, yvars>>

\* dependencies.rs:43-101  the rest of a call that passed the test: the insert,
\* the outline, and one call per child handed to the parallel iterator
ScanExpand ==
    /\ \E i \in 1..Len(scan_nodes) :
          /\ scan_nodes[i].st = "checked"
          /\ scan_visited' = scan_visited \cup {scan_nodes[i].name}
          /\ IF scan_nodes[i].name \in DOMAIN vfs
             THEN \E kids \in {ChildPaths(vfs[scan_nodes[i].name])} :
                    /\ Len(scan_nodes) + Len(kids) <= MaxNodes
                    /\ scan_nodes' =
                          [scan_nodes EXCEPT
                              ![i].st = "done", ![i].expanded = TRUE,
                              ![i].outline = OutlineOf(scan_nodes[i].name,
                                                       vfs[scan_nodes[i].name])]
                          \o [k \in 1..Len(kids) |-> ScanNode(kids[k], i)]
             ELSE scan_nodes' = [scan_nodes EXCEPT ![i].st = "done"]
    /\ UNCHANGED <<opt_call, dvars, svars, yvars>>

\* The stores the scanner is run on, each with the root the scan starts from
ScanFile(name, text) == <<name, text>>
ScanStore(files) ==
    [p \in {files[i][1] : i \in 1..Len(files)} |->
        LET i == CHOOSE j \in 1..Len(files) : files[j][1] = p IN files[i][2]]

ScanInputs ==
    { \* every file referenced once
      [root |-> "main.tex",
       v |-> ScanStore(<<ScanFile("main.tex", <<Heading("section", "s1"), NL, Include("A"),
                                               NL, Txt("t"), Input("B")>>),
                        ScanFile("A.tex", <<Txt("t"), NL, Heading("chapter", "c1"), NL,
                                            Input("C")>>),
                        ScanFile("B.tex", <<OpenHeading("part"), NL, Txt("t")>>),
                        ScanFile("C.tex", <<Txt("t")>>)>>)],
      \* one file referenced twice by the same file
      [root |-> "main.tex",
       v |-> ScanStore(<<ScanFile("main.tex", <<Include("A"), Include("A")>>),
                        ScanFile("A.tex", <<Input("C")>>),
                        ScanFile("C.tex", <<Txt("t")>>)>>)],
      \* one file reached along two paths; D.tex is not in the store
      [root |-> "main.tex",
       v |-> ScanStore(<<ScanFile("main.tex", <<Include("A"), Include("B")>>),
                        ScanFile("A.tex", <<Input("C")>>),
                        ScanFile("B.tex", <<Input("C")>>),
                        ScanFile("C.tex", <<Heading("section", "s2"), NL, Input("D")>>)>>)],
      \* mutual includes
      [root |-> "A.tex",
       v |-> ScanStore(<<ScanFile("A.tex", <<Input("B")>>),
                        ScanFile("B.tex", <<Input("A")>>)>>)],
      \* a file that includes itself
      [root |-> "A.tex",
       v |-> ScanStore(<<ScanFile("A.tex", <<Heading("section", "s3"), NL, Input("A")>>)>>)],
      \* a missing root
      [root |-> "D.tex",
       v |-> ScanStore(<<ScanFile("A.tex", <<Txt("t")>>)>>)],
      \* packages, a bibliography, an empty argument, a file named bibliography
      [root |-> "main.tex",
       v |-> ScanStore(<<ScanFile("main.tex", <<UsePackage(<<"x.sty", " y", " ">>), NL,
                                               Bibliography("refs"), NL, Input(""),
                                               Input("bibliography")>>)>>)] }

\* dependencies.rs:28-31  scan(root_file, vfs): an empty visited set and the
\* call for the root
InitScan ==
    /\ DebouncerInit
    /\ \E inp \in ScanInputs :
          /\ vfs = inp.v
          /\ scan_nodes = <<ScanNode(inp.root, 0)>>
    /\ scan_visited = {}
    /\ opt_call = <<>>
    /\ IdleY
    /\ latexmk = FALSE /\ event_rx = <<>> /\ pending_response = NoReq
    /\ revision = 0 /\ last_pdf_hash = ZeroHash /\ cache = <<>>
    /\ backend = "Internal" /\ active_file = <<>> /\ file_hashes = <<>>
    /\ fs_main_tex = <<>> /\ fs_main_pdf = <<>> /\ fs_synctex = {}
    /\ lmk_build = <<>> /\ triggers = 0 /\ builds = 0
    /\ responses = <<>> /\ compileLog = <<>>

NextScan == ScanCheck \/ ScanExpand

\* Every call that has been made runs on: the thread pool leaves no call waiting
SpecScan == InitScan /\ [][NextScan]_vars /\ WF_vars(NextScan)

(***************************************************************************)
(* Draft handling on its own (compiler.rs:284-334): apply_draft_mode is    *)
(* called on a source and then again on what it returned.                  *)
(***************************************************************************)
MaxToggles == 3     \* calls of apply_draft_mode in one behaviour

\* The \documentclass lines of the sources: none, without an option list, with
\* an empty one, with options written with and without a space after the
\* comma, and with an option that is or contains "draft"
DraftHeads ==
    { <<>>,
      <<DocClass, NL>>,
      <<DocClassOpt(<<>>), NL>>,
      <<DocClassOpt(<<"12pt">>), NL>>,
      <<DocClassOpt(<<"a4paper", "12pt">>), NL>>,
      <<DocClassOpt(<<"a4paper", " 12pt">>), NL>>,
      <<DocClassOpt(<<"draft">>), NL>>,
      <<DocClassOpt(<<"12pt", " draft">>), NL>>,
      <<DocClassOpt(<<"draftcls">>), NL>>,
      <<Txt("t"), DocClass, NL, DocClassOpt(<<"draft">>), NL>> }

\* What follows: a body, a body that already shows the draft banner, no body
DraftBodies ==
    { <<BeginDoc, NL, Txt("t")>>,
      <<BeginDoc>> \o DraftInjection \o <<Txt("t")>>,
      <<Txt("t")>> }

DraftSources == {h \o b : h \in DraftHeads, b \in DraftBodies}

\* Everything but the draft calls, at rest
RestInit ==
    /\ DebouncerInit
    /\ DaemonInit /\ ~latexmk
    /\ opt_call = <<>> /\ scan_nodes = <<>> /\ scan_visited = {}

InitDraft ==
    /\ RestInit /\ IdleVfs /\ IdleInternal /\ IdleReader /\ IdleZ
    /\ draft_src \in DraftSources
    /\ draft_cur = draft_src
    /\ draft_flags = <<>>

\* compiler.rs:284  apply_draft_mode(latex, draft) on the text at hand
DraftCall(draft) ==
    /\ Len(draft_flags) < MaxToggles
    /\ draft_cur' = ApplyDraftMode(draft_cur, draft)
    /\ draft_flags' = Append(draft_flags, draft)
    /\ UNCHANGED <<draft_src, opt_call, scan_nodes, scan_visited, dvars, svars, zvars,
                   vfs_shard, vfs_lock, vfs_task, vfs_written, vfs_returned, vfs_reads,
                   int_runs, rd_lines, rd_pos, rd_pending, rd_alive, rd_sent, rd_recv>>

DraftSet == DraftCall(TRUE)
DraftClear == DraftCall(FALSE)

NextDraft == DraftSet \/ DraftClear

SpecDraft == InitDraft /\ [][NextDraft]_vars

(***************************************************************************)
(* The virtual file store under concurrent callers (vfs.rs).  files is a   *)
(* DashMap: insert holds the write lock of the key's shard while it puts   *)
(* the value in, get holds the read lock of the shard while the returned   *)
(* guard lives, which is while read_file clones the value.                 *)
(***************************************************************************)
VfsTasks == {1, 2}          \* the tasks that call into the store
MaxVfsCalls == 4            \* calls made in one behaviour
VfsPaths == {"A.tex", "B.tex"}
VfsTexts == {UnitAD, UnitB} \* the contents written: two chunks each, no chunk in common

NoTask == 0

VfsIdleTask == [op |-> "idle", path |-> "", text |-> <<>>, pc |-> "idle", buf |-> <<>>,
                seen |-> 0]

\* C27 mutant: insert does not wait for the shard
CanLockWriteAlways(lock, t) == TRUE

\* DashMap::insert takes the shard's write lock: no other holder
CanLockWrite(lock, t) == lock.writer = NoTask /\ lock.readers = {}

\* DashMap::get takes the shard's read lock: no writer
CanLockRead(lock, t) == lock.writer = NoTask

\* vfs.rs:10-14  Vfs::new: an empty map
InitVfs ==
    /\ DebouncerInit
    /\ latexmk = FALSE /\ event_rx = <<>> /\ pending_response = NoReq
    /\ revision = 0 /\ last_pdf_hash = ZeroHash /\ cache = <<>>
    /\ backend = "Internal" /\ active_file = <<>> /\ file_hashes = <<>>
    /\ fs_main_tex = <<>> /\ fs_main_pdf = <<>> /\ fs_synctex = {}
    /\ lmk_build = <<>> /\ triggers = 0 /\ builds = 0
    /\ responses = <<>> /\ compileLog = <<>>
    /\ opt_call = <<>> /\ scan_nodes = <<>> /\ scan_visited = {}
    /\ IdleDraft /\ IdleInternal /\ IdleReader /\ IdleZ
    /\ vfs = <<>>
    /\ vfs_shard \in {[q \in VfsPaths |-> 1],
                      [q \in VfsPaths |-> IF q = "A.tex" THEN 1 ELSE 2]}
    /\ vfs_lock = [sh \in {1, 2} |-> [writer |-> NoTask, readers |-> {}]]
    /\ vfs_task = [t \in VfsTasks |-> VfsIdleTask]
    /\ vfs_written = [q \in VfsPaths |-> <<>>]
    /\ vfs_returned = [q \in VfsPaths |-> 0]
    /\ vfs_reads = <<>>

\* The calls made so far
VfsCalls ==
    Len(vfs_reads) + Cardinality({t \in VfsTasks : vfs_task[t].op # "idle"})
    + Len(vfs_written["A.tex"]) + Len(vfs_written["B.tex"])
    - Cardinality({t \in VfsTasks : vfs_task[t].op = "write" /\ vfs_task[t].pc = "stored"})

VfsFrame ==
    UNCHANGED <<draft_src, draft_cur, draft_flags, opt_call, scan_nodes, scan_visited,
                dvars, zvars, latexmk, event_rx, pending_response, revision, last_pdf_hash,
                cache, backend, active_file, file_hashes, fs_main_tex, fs_main_pdf,
                fs_synctex, lmk_build, triggers, builds, responses, compileLog, vfs_shard,
                int_runs, rd_lines, rd_pos, rd_pending, rd_alive, rd_sent, rd_recv>>

\* vfs.rs:16  a task calls write_file(path, content)
VfsCallWrite ==
    /\ VfsCalls < MaxVfsCalls
    /\ \E t \in VfsTasks, q \in VfsPaths, x \in VfsTexts :
          /\ vfs_task[t].op = "idle"
          /\ vfs_task' = [vfs_task EXCEPT ![t] =
                 [op |-> "write", path |-> q, text |-> x, pc |-> "called", buf |-> <<>>,
                  seen |-> 0]]
    /\ UNCHANGED <<vfs, vfs_lock, vfs_written, vfs_returned, vfs_reads>>
    /\ VfsFrame

\* vfs.rs:20  a task calls read_file(path); seen is what the writes that have
\* returned by now had inserted
VfsCallRead ==
    /\ VfsCalls < MaxVfsCalls
    /\ \E t \in VfsTasks, q \in VfsPaths :
          /\ vfs_task[t].op = "idle"
          /\ vfs_task' = [vfs_task EXCEPT ![t] =
                 [op |-> "read", path |-> q, text |-> <<>>, pc |-> "called", buf |-> <<>>,
                  seen |-> vfs_returned[q]]]
    /\ UNCHANGED <<vfs, vfs_lock, vfs_written, vfs_returned, vfs_reads>>
    /\ VfsFrame

\* vfs.rs:17  insert: the shard is locked for writing
VfsLockWrite ==
    /\ \E t \in VfsTasks :
          /\ vfs_task[t].op = "write" /\ vfs_task[t].pc = "called"
          /\ CanLockWrite(vfs_lock[vfs_shard[vfs_task[t].path]], t)
          /\ vfs_lock' = [vfs_lock EXCEPT ![vfs_shard[vfs_task[t].path]].writer = t]
          /\ vfs_task' = [vfs_task EXCEPT ![t].pc = "locked"]
    /\ UNCHANGED <<vfs, vfs_written, vfs_returned, vfs_reads>>
    /\ VfsFrame

\* vfs.rs:17  insert: the value is put in place of the old one
VfsInsert ==
    /\ \E t \in VfsTasks :
          /\ vfs_task[t].op = "write" /\ vfs_task[t].pc = "locked"
          /\ vfs' = VfsWriteFile(vfs, vfs_task[t].path, vfs_task[t].text)
          /\ vfs_written' = [vfs_written EXCEPT
                                ![vfs_task[t].path] = Append(@, vfs_task[t].text)]
          /\ vfs_task' = [vfs_task EXCEPT
                             ![t].pc = "stored",
                             ![t].seen = Len(vfs_written[vfs_task[t].path]) + 1]
    /\ UNCHANGED <<vfs_lock, vfs_returned, vfs_reads>>
    /\ VfsFrame

\* vfs.rs:18  insert drops the lock and write_file returns
VfsReturnWrite ==
    /\ \E t \in VfsTasks :
          /\ vfs_task[t].op = "write" /\ vfs_task[t].pc = "stored"
          /\ vfs_lock' = [vfs_lock EXCEPT
                 ![vfs_shard[vfs_task[t].path]].writer =
                     IF @ = t THEN NoTask ELSE @]
          /\ vfs_returned' = [vfs_returned EXCEPT
                 ![vfs_task[t].path] = IF vfs_task[t].seen > @ THEN vfs_task[t].seen ELSE @]
          /\ vfs_task' = [vfs_task EXCEPT ![t] = VfsIdleTask]
    /\ UNCHANGED <<vfs, vfs_written, vfs_reads>>
    /\ VfsFrame

\* vfs.rs:21  get: the shard is locked for reading and the key looked up
VfsLockRead ==
    /\ \E t \in VfsTasks :
          /\ vfs_task[t].op = "read" /\ vfs_task[t].pc = "called"
          /\ CanLockRead(vfs_lock[vfs_shard[vfs_task[t].path]], t)
          /\ vfs_lock' = [vfs_lock EXCEPT
                 ![vfs_shard[vfs_task[t].path]].readers = @ \cup {t}]
          /\ vfs_task' = [vfs_task EXCEPT
                 ![t].pc = IF vfs_task[t].path \in DOMAIN vfs THEN "locked" ELSE "none"]
    /\ UNCHANGED <<vfs, vfs_written, vfs_returned, vfs_reads>>
    /\ VfsFrame

\* vfs.rs:21  v.value().clone(): the next chunk of the value is copied
VfsClone ==
    /\ \E t \in VfsTasks :
          /\ vfs_task[t].op = "read" /\ vfs_task[t].pc = "locked"
          /\ Len(vfs_task[t].buf) < Len(vfs[vfs_task[t].path])
          /\ vfs_task' = [vfs_task EXCEPT
                 ![t].buf = Append(@, vfs[vfs_task[t].path][Len(@) + 1])]
    /\ UNCHANGED <<vfs, vfs_lock, vfs_written, vfs_returned, vfs_reads>>
    /\ VfsFrame

\* vfs.rs:21-22  the guard is dropped and read_file returns Some(copy) or None
VfsReturnRead ==
    /\ \E t \in VfsTasks :
          /\ vfs_task[t].op = "read"
          /\ \/ vfs_task[t].pc = "none"
             \/ /\ vfs_task[t].pc = "locked"
                /\ Len(vfs_task[t].buf) >= Len(vfs[vfs_task[t].path])
          /\ vfs_lock' = [vfs_lock EXCEPT
                 ![vfs_shard[vfs_task[t].path]].readers = @ \ {t}]
          /\ vfs_reads' = Append(vfs_reads,
                 [path |-> vfs_task[t].path,
                  res |-> IF vfs_task[t].pc = "none" THEN <<>> ELSE <<vfs_task[t].buf>>,
                  from |-> vfs_task[t].seen,
                  upto |-> Len(vfs_written[vfs_task[t].path])])
          /\ vfs_task' = [vfs_task EXCEPT ![t] = VfsIdleTask]
    /\ UNCHANGED <<vfs, vfs_written, vfs_returned>>
    /\ VfsFrame

NextVfs ==
    \/ VfsCallWrite \/ VfsCallRead
    \/ VfsLockWrite \/ VfsInsert \/ VfsReturnWrite
    \/ VfsLockRead \/ VfsClone \/ VfsReturnRead

SpecVfs == InitVfs /\ [][NextVfs]_vars

(***************************************************************************)
(* The Internal backend on its own (compiler.rs:352-377), its outputs      *)
(* replied through update_revision_and_send (compiler_daemon.rs:142-157).  *)
(***************************************************************************)
MaxInternalRuns == 2    \* calls of compile_internal in one behaviour

\* n lines of text, each ended by a newline
ManyLines(n) == [i \in 1..(2 * n) |-> IF i % 2 = 1 THEN Txt("l") ELSE NL]

\* What follows the leading lines of a source
InternalTails ==
    { <<>>, <<Txt("x")>>, <<Txt("y")>>, <<Txt("x"), NL>>,
      <<Txt("x"), NL, Txt("y")>>, <<Txt("x"), NL, Txt("z"), NL, Txt("y")>> }

\* Sources of two lines less than, one line less than, and as many lines as the
\* backend takes, followed by a tail
InternalSources ==
    {ManyLines(InternalLines - d) \o tl : d \in {0, 1, 2}, tl \in InternalTails}

InitInternal ==
    /\ RestInit /\ IdleDraft /\ IdleVfs /\ IdleReader /\ IdleZ
    /\ int_runs = <<>>

\* compiler.rs:352, compiler_daemon.rs:142  a source is compiled and replied
InternalCompile ==
    /\ Len(int_runs) < MaxInternalRuns
    /\ \E src \in InternalSources :
       \E out \in {CompileInternal(src)} :
       \E u \in {UpdateRevision(revision, last_pdf_hash, out)} :
          /\ revision' = u.revision
          /\ last_pdf_hash' = u.last_pdf_hash
          /\ int_runs' = Append(int_runs, [src |-> src, out |-> out, revision |-> u.revision])
    /\ UNCHANGED <<vfs, latexmk, event_rx, pending_response, cache, backend, active_file,
                   file_hashes, fs_main_tex, fs_main_pdf, fs_synctex, lmk_build, triggers,
                   builds, responses, compileLog, opt_call, scan_nodes, scan_visited, dvars,
                   draft_src, draft_cur, draft_flags,
                   vfs_shard, vfs_lock, vfs_task, vfs_written, vfs_returned, vfs_reads,
                   rd_lines, rd_pos, rd_pending, rd_alive, rd_sent, rd_recv, zvars>>

NextInternal == InternalCompile

SpecInternal == InitInternal /\ [][NextInternal]_vars

(***************************************************************************)
(* The stdout reader of the latexmk supervisor (latexmk.rs:35-48) with the *)
(* event channel of capacity 10 (compiler_daemon.rs:43) and the daemon at  *)
(* its receiving end.                                                      *)
(***************************************************************************)
MaxLines == 3       \* lines latexmk writes in one behaviour, after those of ReaderBacklog

\* The lines latexmk writes, by the markers they contain: success lines, lines
\* with the run-number marker, error lines, lines with one success marker
\* only, and lines without a marker
ReaderLineKinds ==
    { Line(TRUE, TRUE, FALSE, FALSE), Line(TRUE, TRUE, TRUE, TRUE),
      Line(TRUE, FALSE, TRUE, FALSE), Line(FALSE, FALSE, TRUE, TRUE),
      Line(TRUE, FALSE, FALSE, TRUE), Line(FALSE, FALSE, FALSE, TRUE),
      Line(FALSE, TRUE, FALSE, FALSE), Line(FALSE, FALSE, FALSE, FALSE) }

\* The reader starts on a fresh process, or stands after EventCap - 1 run lines
\* whose events the daemon, busy with a request, has not received yet
ReaderBacklog == [i \in 1..(EventCap - 1) |-> Line(FALSE, FALSE, TRUE, FALSE)]

InitReader ==
    /\ DebouncerInit
    /\ vfs = InitialVfs /\ latexmk = TRUE /\ pending_response = NoReq
    /\ revision = 0 /\ last_pdf_hash = ZeroHash /\ cache = <<>>
    /\ backend = "Internal" /\ active_file = <<>> /\ file_hashes = <<>>
    /\ fs_main_tex = <<>> /\ fs_main_pdf = <<>> /\ fs_synctex = {}
    /\ lmk_build = <<>> /\ triggers = 0 /\ builds = 0
    /\ responses = <<>> /\ compileLog = <<>>
    /\ opt_call = <<>> /\ scan_nodes = <<>> /\ scan_visited = {}
    /\ IdleDraft /\ IdleVfs /\ IdleInternal /\ IdleZ
    /\ rd_lines \in {<<>>, ReaderBacklog}
    /\ rd_pos = Len(rd_lines) /\ rd_pending = <<>> /\ rd_alive = TRUE
    /\ rd_sent = [i \in 1..Len(rd_lines) |-> [line |-> i, ev |-> "BuildStarted"]]
    /\ rd_recv = 0
    /\ event_rx = [i \in 1..Len(rd_lines) |-> "BuildStarted"]

ReaderFrame ==
    UNCHANGED <<vfs, latexmk, pending_response, revision, last_pdf_hash, cache, backend,
                active_file, file_hashes, fs_main_tex, fs_main_pdf, fs_synctex, lmk_build,
                triggers, builds, responses, compileLog, opt_call, scan_nodes,
                scan_visited, dvars, zvars, draft_src, draft_cur, draft_flags, vfs_shard,
                vfs_lock, vfs_task, vfs_written, vfs_returned, vfs_reads, int_runs>>

\* The lines written after those the reader started with (MaxLines is less
\* than the backlog, so a longer sequence began with the backlog)
ReaderNewLines ==
    IF Len(rd_lines) >= EventCap - 1 THEN Len(rd_lines) - (EventCap - 1)
    ELSE Len(rd_lines)

\* latexmk writes a line to its stdout
LmkPrintLine ==
    /\ ReaderNewLines < MaxLines
    /\ \E l \in ReaderLineKinds : rd_lines' = Append(rd_lines, l)
    /\ UNCHANGED <<rd_pos, rd_pending, rd_alive, rd_sent, rd_recv, event_rx>>
    /\ ReaderFrame

\* latexmk.rs:38-46  next_line() returns the next line and it is classified
ReaderNextLine ==
    /\ rd_pending = <<>>
    /\ rd_pos < Len(rd_lines)
    /\ rd_pos' = rd_pos + 1
    /\ rd_pending' = ClassifyLine(rd_lines[rd_pos + 1])
    /\ UNCHANGED <<rd_lines, rd_alive, rd_sent, rd_recv, event_rx>>
    /\ ReaderFrame

\* latexmk.rs:41, 43, 45  event_tx.send(event).await: waits while the channel is
\* full; Err, which is ignored, once the receiver is gone
ReaderSend ==
    /\ rd_pending # <<>>
    /\ IF rd_alive
       THEN /\ Len(event_rx) < EventCap
            /\ event_rx' = Append(event_rx, rd_pending[1])
            /\ rd_sent' = Append(rd_sent, [line |-> rd_pos, ev |-> rd_pending[1]])
       ELSE UNCHANGED <<event_rx, rd_sent>>
    /\ rd_pending' = <<>>
    /\ UNCHANGED <<rd_lines, rd_pos, rd_alive, rd_recv>>
    /\ ReaderFrame

\* compiler_daemon.rs:129  the daemon's loop takes an event from the channel
ReaderDaemonRecv ==
    /\ rd_alive /\ event_rx # <<>>
    /\ event_rx' = Tail(event_rx)
    /\ rd_recv' = rd_recv + 1
    /\ UNCHANGED <<rd_lines, rd_pos, rd_pending, rd_alive, rd_sent>>
    /\ ReaderFrame

\* compiler_daemon.rs:65  run() returns and the daemon, with the receiver and
\* what the channel holds, is dropped
ReaderDaemonGone ==
    /\ rd_alive
    /\ rd_alive' = FALSE
    /\ event_rx' = <<>>
    /\ UNCHANGED <<rd_lines, rd_pos, rd_pending, rd_sent, rd_recv>>
    /\ ReaderFrame

NextReader ==
    \/ LmkPrintLine \/ ReaderNextLine \/ ReaderSend
    \/ ReaderDaemonRecv \/ ReaderDaemonGone

SpecReader == InitReader /\ [][NextReader]_vars

(***************************************************************************)
(* The editor (editor.rs).  The rope is the sequence of its characters; a  *)
(* char index counts from 0, so the character at index c is buffer[c + 1]. *)
(* A line of the rope ends with its "\n"; the rope has one line more than  *)
(* it has "\n".  An editor e is the record of the fields handle_key uses.  *)
(***************************************************************************)
MaxBuf == 2         \* characters the buffer holds at most in one behaviour

Esc == "esc"        \* '\u{1b}'

\* The keys typed: those handle_normal_key and handle_visual_key match, a
\* letter they do not match, the newline and Escape
Keys == {"i", "v", "h", "j", "k", "l", "x", "a", "0", "$", "d", "e", "\n", Esc}

\* Rope::char_to_line: the line the char index c lies in, from 0
CharToLine(buf, c) == Cardinality({i \in 1..c : buf[i] = "\n"})

\* Rope::line_to_char: the char index the line l starts at
LineToChar(buf, l) ==
    IF l = 0 THEN 0
    ELSE CHOOSE i \in 1..Len(buf) : buf[i] = "\n" /\ CharToLine(buf, i) = l

\* Rope::line(l).len_chars(): the length of line l, its "\n" counted
LineLen(buf, l) ==
    LET start == LineToChar(buf, l)
        ends == {i \in (start + 1)..Len(buf) : buf[i] = "\n"}
    IN IF ends = {} THEN Len(buf) - start
       ELSE (CHOOSE i \in ends : \A j \in ends : i <= j) - start

\* Rope::len_lines
LenLines(buf) == CharToLine(buf, Len(buf)) + 1

\* editor.rs:165-169, 180-184, 198-202  the last column of line l the cursor
\* may take: before the "\n" of a line that ends with one
MaxCol(buf, l) ==
    LET start == LineToChar(buf, l)
        len == LineLen(buf, l)
    IN IF len > 0 /\ buf[start + len] = "\n" THEN len - 1 ELSE len

Min2(a, b) == IF a < b THEN a ELSE b

\* editor.rs:146-150
MoveLeft(e) == IF e.cursor > 0 THEN [e EXCEPT !.cursor = e.cursor - 1] ELSE e

\* editor.rs:152-156
MoveRight(e) ==
    IF e.cursor < Len(e.buffer) THEN [e EXCEPT !.cursor = e.cursor + 1] ELSE e

\* editor.rs:158-172
MoveUp(e) ==
    LET line_idx == CharToLine(e.buffer, e.cursor)
        col == e.cursor - LineToChar(e.buffer, line_idx)
    IN IF line_idx > 0
       THEN [e EXCEPT !.cursor = LineToChar(e.buffer, line_idx - 1)
                                    + Min2(col, MaxCol(e.buffer, line_idx - 1))]
       ELSE e

\* editor.rs:174-187
MoveDown(e) ==
    LET line_idx == CharToLine(e.buffer, e.cursor)
        col == e.cursor - LineToChar(e.buffer, line_idx)
    IN IF line_idx < LenLines(e.buffer) - 1
       THEN [e EXCEPT !.cursor = LineToChar(e.buffer, line_idx + 1)
                                    + Min2(col, MaxCol(e.buffer, line_idx + 1))]
       ELSE e

\* editor.rs:189-192
MoveToLineStart(e) ==
    [e EXCEPT !.cursor = LineToChar(e.buffer, CharToLine(e.buffer, e.cursor))]

\* editor.rs:194-203
MoveToLineEnd(e) ==
    LET line_idx == CharToLine(e.buffer, e.cursor)
    IN [e EXCEPT !.cursor = LineToChar(e.buffer, line_idx) + MaxCol(e.buffer, line_idx)]

\* editor.rs:117-120  (Rope::insert_char panics on an index beyond the end;
\* handle_key never leaves the cursor there, see CursorInBuffer)
InsertChar(e, c) ==
    [e EXCEPT !.buffer = SubSeq(e.buffer, 1, e.cursor) \o <<c>>
                            \o SubSeq(e.buffer, e.cursor + 1, Len(e.buffer)),
              !.cursor = e.cursor + 1]

\* C31 mutant: the character before the cursor goes
DeleteCharBefore(e) ==
    IF e.cursor < Len(e.buffer)
    THEN [e EXCEPT !.buffer = SubSeq(e.buffer, 1, e.cursor - 1)
                                 \o SubSeq(e.buffer, e.cursor + 1, Len(e.buffer))]
    ELSE e

\* editor.rs:122-126
DeleteChar(e) ==
    IF e.cursor < Len(e.buffer)
    THEN [e EXCEPT !.buffer = SubSeq(e.buffer, 1, e.cursor)
                                 \o SubSeq(e.buffer, e.cursor + 2, Len(e.buffer))]
    ELSE e

\* editor.rs:135-144
DeleteSelection(e) ==
    IF e.visual_anchor = <<>> THEN e
    ELSE LET start == Min2(e.visual_anchor[1], e.cursor)
             end == IF e.visual_anchor[1] > e.cursor THEN e.visual_anchor[1] ELSE e.cursor
         IN IF start < end
            THEN [e EXCEPT !.buffer = SubSeq(e.buffer, 1, start)
                                         \o SubSeq(e.buffer, end + 1, Len(e.buffer)),
                           !.cursor = start]
            ELSE e

\* editor.rs:75-95
HandleNormalKey(e, c) ==
    CASE c = "i" -> [e EXCEPT !.mode = "Insert"]
      [] c = "v" -> [e EXCEPT !.mode = "Visual", !.visual_anchor = <<e.cursor>>]
      [] c = "h" -> MoveLeft(e)
      [] c = "j" -> MoveDown(e)
      [] c = "k" -> MoveUp(e)
      [] c = "l" -> MoveRight(e)
      [] c = "x" -> DeleteChar(e)
      [] c = "a" -> [MoveRight(e) EXCEPT !.mode = "Insert"]
      [] c = "0" -> MoveToLineStart(e)
      [] c = "$" -> MoveToLineEnd(e)
      [] OTHER -> e

\* editor.rs:97-115
HandleVisualKey(e, c) ==
    CASE c = Esc -> [e EXCEPT !.mode = "Normal", !.visual_anchor = <<>>]
      [] c = "h" -> MoveLeft(e)
      [] c = "j" -> MoveDown(e)
      [] c = "k" -> MoveUp(e)
      [] c = "l" -> MoveRight(e)
      [] c \in {"d", "x"} ->
            [DeleteSelection(e) EXCEPT !.mode = "Normal", !.visual_anchor = <<>>]
      [] OTHER -> e

\* editor.rs:60-73
HandleKey(e, c) ==
    CASE e.mode = "Normal" -> HandleNormalKey(e, c)
      [] e.mode = "Insert" ->
            IF c = Esc THEN [e EXCEPT !.mode = "Normal"] ELSE InsertChar(e, c)
      [] e.mode = "Visual" -> HandleVisualKey(e, c)

\* The editor at hand
Editor ==
    [buffer |-> ed_buffer, cursor |-> ed_cursor, mode |-> ed_mode,
     visual_anchor |-> ed_anchor]

InitEditor ==
    /\ DebouncerInit
    /\ DaemonInit /\ ~latexmk
    /\ opt_call = <<>> /\ scan_nodes = <<>> /\ scan_visited = {}
    /\ IdleDraft /\ IdleVfs /\ IdleInternal /\ IdleReader
    /\ IdleEditor /\ IdleObserve /\ IdleRelay

\* editor.rs:60  handle_key(c), for a key that keeps the buffer within MaxBuf
EditorKey ==
    \E c \in Keys :
    \E e \in {HandleKey(Editor, c)} :
       /\ Len(e.buffer) <= MaxBuf
       /\ ed_buffer' = e.buffer
       /\ ed_cursor' = e.cursor
       /\ ed_mode' = e.mode
       /\ ed_anchor' = e.visual_anchor
       /\ ed_key' = <<c, ed_mode>>
       /\ UNCHANGED <<dvars, svars, opt_call, scan_nodes, scan_visited,
                      draft_src, draft_cur, draft_flags,
                      vfs_shard, vfs_lock, vfs_task, vfs_written, vfs_returned, vfs_reads,
                      int_runs, rd_lines, rd_pos, rd_pending, rd_alive, rd_sent, rd_recv,
                      ovars, rvars>>

NextEditor == EditorKey

SpecEditor == InitEditor /\ [][NextEditor]_vars

(***************************************************************************)
(* The change detection of one optimize_latex call with its parallel       *)
(* workers (compiler.rs:176-211).  all_known_files.par_iter() runs the     *)
(* closure once per item of the list; an item's closure reads the file and *)
(* hashes it, then goes through file_hashes.entry(path), which holds the   *)
(* shard's write lock from the lookup to the insert.  collect_all_         *)
(* dependencies pushes a path once per reference (compiler.rs:346), so a   *)
(* file that two files name is in the list twice.  The store is shared     *)
(* with the task of the window, which writes the file being edited         *)
(* (main.rs:392, 422) while the daemon's call runs.                        *)
(***************************************************************************)
UnitBD == <<Txt("b1"), Input("D")>>

\* A store in which A.tex and B.tex both name D.tex
ObsStore(d) ==
    [p \in {"main.tex", "A.tex", "B.tex", "D.tex"} |->
        CASE p = "main.tex" -> RootAB
          [] p = "A.tex" -> UnitAD
          [] p = "B.tex" -> UnitBD
          [] OTHER -> d]

\* What the window's task writes while the call runs
ObsWrites == {<<"D.tex", UnitD>>, <<"D.tex", UnitD2>>, <<"A.tex", UnitAD2>>}

\* The closure of an item before it has run
ObsTask(path) ==
    [path |-> path, pc |-> "start", new_hash |-> ZeroHash, content_size |-> 0,
     delta |-> <<>>]

\* C37 mutant: an occupied entry counts as changed whatever it holds
ObserveEntryAlways(fh, path, new_hash, content_size) ==
    [fh |-> [q \in DOMAIN fh \cup {path} |-> IF q = path THEN new_hash ELSE fh[q]],
     deltas |-> <<[path |-> path,
                   old_hash |-> IF path \in DOMAIN fh THEN fh[path] ELSE ZeroHash,
                   new_hash |-> new_hash, content_size |-> content_size]>>]

\* compiler.rs:184-208  file_hashes.entry(path) for a content that hashed to
\* new_hash: the table after, and the FileDelta if there is one
ObserveEntry(fh, path, new_hash, content_size) ==
    IF path \in DOMAIN fh /\ fh[path] = new_hash
    THEN [fh |-> fh, deltas |-> <<>>]
    ELSE [fh |-> [q \in DOMAIN fh \cup {path} |-> IF q = path THEN new_hash ELSE fh[q]],
          deltas |-> <<[path |-> path,
                        old_hash |-> IF path \in DOMAIN fh THEN fh[path] ELSE ZeroHash,
                        new_hash |-> new_hash, content_size |-> content_size]>>]

\* The call has got to the par_iter: the list is gathered from the store
\* (compiler.rs:164-165); the table is empty or left by an earlier call, made
\* when D.tex held d0
InitObserve ==
    /\ DebouncerInit
    /\ \E d0, d \in {UnitD, UnitD2} :
          /\ vfs = ObsStore(d)
          /\ obs_list = DepsOf("main.tex", vfs)
          /\ file_hashes \in {<<>>, DetectChanges(obs_list, ObsStore(d0), <<>>).fh}
    /\ obs_task = [i \in 1..Len(obs_list) |-> ObsTask(obs_list[i])]
    /\ obs_fh0 = file_hashes
    /\ active_file = <<>>
    /\ opt_call = <<>> /\ scan_nodes = <<>> /\ scan_visited = {}
    /\ IdleDraft /\ IdleVfs /\ IdleInternal /\ IdleReader /\ IdleEditor /\ IdleRelay
    /\ latexmk = FALSE /\ event_rx = <<>> /\ pending_response = NoReq
    /\ revision = 0 /\ last_pdf_hash = ZeroHash /\ cache = <<>>
    /\ backend = "Internal"
    /\ fs_main_tex = <<>> /\ fs_main_pdf = <<>> /\ fs_synctex = {}
    /\ lmk_build = <<>> /\ triggers = 0 /\ builds = 0
    /\ responses = <<>> /\ compileLog = <<>>

ObsFrame ==
    UNCHANGED <<latexmk, event_rx, pending_response, revision, last_pdf_hash, cache,
                backend, active_file, fs_main_tex, fs_main_pdf, fs_synctex, lmk_build,
                triggers, builds, responses, compileLog, opt_call, scan_nodes,
                scan_visited, dvars, draft_src, draft_cur, draft_flags, vfs_shard,
                vfs_lock, vfs_task, vfs_written, vfs_returned, vfs_reads, int_runs,
                rd_lines, rd_pos, rd_pending, rd_alive, rd_sent, rd_recv, evars, rvars,
                obs_list, obs_fh0>>

\* compiler.rs:178-182  a closure reads its file and hashes the content; it
\* returns None for a path the store does not hold
ObsHash ==
    /\ \E i \in 1..Len(obs_task) :
          /\ obs_task[i].pc = "start"
          /\ obs_task' =
                [obs_task EXCEPT ![i] =
                    IF obs_task[i].path \in DOMAIN vfs
                    THEN [@ EXCEPT !.pc = "hashed",
                                   !.new_hash = AHash(vfs[obs_task[i].path]),
                                   !.content_size = Len(vfs[obs_task[i].path])]
                    ELSE [@ EXCEPT !.pc = "done"]]
    /\ UNCHANGED <<vfs, file_hashes>>
    /\ ObsFrame

\* compiler.rs:184-208  the closure's turn at the entry of its path
ObsEntry ==
    /\ \E i \in 1..Len(obs_task) :
          /\ obs_task[i].pc = "hashed"
          /\ \E r \in {ObserveEntry(file_hashes, obs_task[i].path, obs_task[i].new_hash,
                                    obs_task[i].content_size)} :
                /\ file_hashes' = r.fh
                /\ obs_task' = [obs_task EXCEPT ![i].pc = "done", ![i].delta = r.deltas]
    /\ UNCHANGED vfs
    /\ ObsFrame

\* main.rs:392, 422  the window's task writes a file while the closures run
ObsEdit ==
    /\ \E i \in 1..Len(obs_task) : obs_task[i].pc # "done"
    /\ \E w \in ObsWrites :
          /\ vfs[w[1]] # w[2]
          /\ vfs' = VfsWriteFile(vfs, w[1], w[2])
    /\ UNCHANGED <<file_hashes, obs_task>>
    /\ ObsFrame

NextObserve == ObsHash \/ ObsEntry \/ ObsEdit

SpecObserve == InitObserve /\ [][NextObserve]_vars

(***************************************************************************)
(* The tasks the debouncer spawns, one per forwarded attempt (main.rs:      *)
(* 99-116 and 138-155, the same body), with the daemon that serves their   *)
(* requests and the event loop that takes their results.  A task writes    *)
(* its text to main.tex in the store, scans the store (which changes       *)
(* nothing), sends its request on the compile channel, awaits the reply    *)
(* and sends it on the result channel.  The runtime runs the tasks in any  *)
(* order; the requests ask for the Internal backend, so the daemon replies *)
(* in the step that receives the request.                                  *)
(***************************************************************************)
MaxSpawn == 2       \* attempts the debouncer forwards in one behaviour
CompileCap == 10    \* main.rs:67  mpsc::channel(10)
ResultCap == 1      \* main.rs:68  mpsc::channel(1)

\* The texts of the forwarded tuples
RelayTexts == {RootAB, RootABC}

\* main.rs:104-111  the request a task sends for its text
RelayRequest(text) == Request(text, "Internal", FALSE, FALSE, <<"A.tex">>)

InitRelay ==
    /\ DebouncerInit
    /\ DaemonInit /\ ~latexmk
    /\ opt_call = <<>> /\ scan_nodes = <<>> /\ scan_visited = {}
    /\ IdleDraft /\ IdleVfs /\ IdleInternal /\ IdleReader /\ IdleEditor /\ IdleObserve
    /\ IdleRelay

RelayFrame ==
    UNCHANGED <<dvars, opt_call, scan_nodes, scan_visited, draft_src, draft_cur,
                draft_flags, vfs_shard, vfs_lock, vfs_task, vfs_written, vfs_returned,
                vfs_reads, int_runs, rd_lines, rd_pos, rd_pending, rd_alive, rd_sent,
                rd_recv, evars, ovars, latexmk, event_rx, fs_main_pdf, fs_synctex,
                lmk_build, builds>>

\* What only the daemon's request arm changes
RelayDaemonVars ==
    <<backend, active_file, file_hashes, cache, compileLog, revision, last_pdf_hash,
      responses, fs_main_tex, triggers, pending_response, rl_recvd>>

\* main.rs:94-99, 131-138  the debouncer forwards an attempt: tokio::spawn
RelaySpawn ==
    /\ Len(rl_task) < MaxSpawn
    /\ \E text \in RelayTexts :
          rl_task' = Append(rl_task, [text |-> text, pc |-> "write", revision |-> 0])
    /\ UNCHANGED <<vfs, rl_compile, rl_result, rl_current, RelayDaemonVars>>
    /\ RelayFrame

\* main.rs:100  vfs_c.write_file("main.tex", text)
RelayWrite ==
    /\ \E i \in 1..Len(rl_task) :
          /\ rl_task[i].pc = "write"
          /\ vfs' = VfsWriteFile(vfs, "main.tex", rl_task[i].text)
          /\ rl_task' = [rl_task EXCEPT ![i].pc = "send"]
    /\ UNCHANGED <<rl_compile, rl_result, rl_current, RelayDaemonVars>>
    /\ RelayFrame

\* main.rs:104-111  ctx_c.send(CompileRequest::Compile { .. }).await
RelaySend ==
    /\ Len(rl_compile) < CompileCap
    /\ \E i \in 1..Len(rl_task) :
          /\ rl_task[i].pc = "send"
          /\ rl_compile' = Append(rl_compile, i)
          /\ rl_task' = [rl_task EXCEPT ![i].pc = "wait"]
    /\ UNCHANGED <<vfs, rl_result, rl_current, RelayDaemonVars>>
    /\ RelayFrame

\* compiler_daemon.rs:68-110, 142-157  the daemon receives the next request,
\* compiles and replies on the request's oneshot channel
RelayDaemon ==
    /\ rl_compile # <<>>
    /\ rl_compile' = Tail(rl_compile)
    /\ rl_recvd' = Append(rl_recvd, Head(rl_compile))
    /\ \E req \in {RelayRequest(rl_task[Head(rl_compile)].text)} :
          /\ backend' = CoerceBackend(req.backend, req.draft)
          /\ active_file' = req.active_file
          /\ RequestCompile(req, CoerceBackend(req.backend, req.draft), TRUE, 1)
    /\ rl_task' = [rl_task EXCEPT ![Head(rl_compile)].pc = "relay",
                                  ![Head(rl_compile)].revision = Last(responses').revision]
    /\ UNCHANGED <<vfs, rl_result, rl_current>>
    /\ RelayFrame

\* main.rs:112-113  orx.await has returned: rtx_c.send((res, dep_tree)).await
RelayResult ==
    /\ Len(rl_result) < ResultCap
    /\ \E i \in 1..Len(rl_task) :
          /\ rl_task[i].pc = "relay"
          /\ rl_result' = Append(rl_result, [task |-> i, revision |-> rl_task[i].revision])
          /\ rl_task' = [rl_task EXCEPT ![i].pc = "done"]
    /\ UNCHANGED <<vfs, rl_compile, rl_current, RelayDaemonVars>>
    /\ RelayFrame

\* main.rs:318-320  result_rx.try_recv(): current_pdf_revision = res.revision
RelayConsume ==
    /\ rl_result # <<>>
    /\ rl_current' = Head(rl_result).revision
    /\ rl_result' = Tail(rl_result)
    /\ UNCHANGED <<vfs, rl_task, rl_compile, RelayDaemonVars>>
    /\ RelayFrame

NextRelay ==
    RelaySpawn \/ RelayWrite \/ RelaySend \/ RelayDaemon \/ RelayResult \/ RelayConsume

SpecRelay == InitRelay /\ [][NextRelay]_vars

(***************************************************************************)
(* The specifications                                                      *)
(***************************************************************************)
\* No call of optimize_latex recorded, no scan under way
IdleInit ==
    /\ opt_call = <<>>
    /\ scan_nodes = <<>>
    /\ scan_visited = {}
    /\ IdleY

Init == DaemonInit /\ DebouncerInit /\ IdleInit

Next == DaemonRequest \/ DaemonEvent \/ LmkBuildStart \/ LmkBuildFinish \/ VfsWrite

Spec == Init /\ [][Next]_vars

\* Spec with what the scheduling gives: the daemon's loop takes an event that
\* waits in the channel (compiler_daemon.rs:66-67, 114), and a build that
\* latexmk has started comes to its end and prints its last line.  When a
\* build starts, and when a request arrives, is left open.
SpecLive == Spec /\ WF_vars(DaemonEvent) /\ WF_vars(LmkBuildFinish)

InitDebounce ==
    /\ DebouncerInit
    /\ DaemonInit /\ ~latexmk
    /\ IdleInit

NextDebounce == DebounceRecv \/ DebounceTimer \/ Tick

SpecDebounce == InitDebounce /\ [][NextDebounce]_vars

(***************************************************************************)
(* Claims about the debouncer (SpecDebounce)                               *)
(***************************************************************************)

\* The debouncer is blocked in select!: no held tuple whose timer is due.
TimerDue == last_req # NoTuple /\ now >= sleep_deadline

\* Ten tuples were received, all within 20 ms of the first, the first of them
\* from idle, and the window has run out since the tenth.
BurstOfTenDone ==
    /\ recvCount = 10
    /\ lastRecvTime - firstRecvTime <= 20
    /\ now - lastRecvTime >= W
    /\ ~TimerDue

\* C3 (as stated): ten tuples fed within 20 ms, starting from idle, give
\* exactly one forwarded attempt, which carries the tenth tuple.
C3_BurstForwardsOnce ==
    BurstOfTenDone => (Len(forwarded) = 1 /\ forwarded[1].id = 10)

\* C3 (amended): ten tuples fed within 20 ms, starting from idle, give exactly
\* two forwarded attempts: the first tuple at the leading edge and the tenth at
\* the trailing edge; tuples 2..9 are never forwarded.
C3_BurstForwardsFirstAndLast ==
    BurstOfTenDone =>
        /\ Len(forwarded) = 2
        /\ forwarded[1].id = 1 /\ forwarded[1].edge = "leading"
        /\ forwarded[1].at = firstRecvTime
        /\ forwarded[2].id = 10 /\ forwarded[2].edge = "trailing"
        /\ forwarded[2].at >= lastRecvTime + W

C3_Witness == BurstOfTenDone /\ Len(forwarded) = 2 /\ lastRecvTime > firstRecvTime

\* C4: once W has passed since the last received tuple (and the due timer has
\* been serviced), the last received tuple is the last one forwarded.
C4_LastEditForwarded ==
    (recvCount > 0 /\ now - lastRecvTime >= W /\ ~TimerDue) =>
        (forwarded # <<>> /\ Last(forwarded).id = recvCount)

C4_Witness ==
    /\ recvCount >= 3 /\ now - lastRecvTime >= W /\ ~TimerDue
    /\ Len(forwarded) >= 2
    /\ Last(forwarded).edge = "trailing" /\ Last(forwarded).id = recvCount
    /\ forwarded[Len(forwarded) - 1].id < recvCount - 1

\* C5: any two consecutive forwarded attempts are at least W apart.
C5_AtMostOnePerWindow ==
    \A i \in 1..(Len(forwarded) - 1) : forwarded[i + 1].at - forwarded[i].at >= W

C5_Witness ==
    /\ Len(forwarded) >= 3
    /\ \E i \in 1..(Len(forwarded) - 1) :
          /\ forwarded[i].edge = "trailing" /\ forwarded[i + 1].edge = "leading"
          /\ forwarded[i + 1].at - forwarded[i].at = W

\* C6: a tuple received when nothing was forwarded yet, or at least W after the
\* last forwarded attempt, is forwarded in the same step; the window restarts at
\* that instant and the held tuple, if any, is dropped.
C6_LeadingEdgeImmediate ==
    [][(/\ recvCount' = recvCount + 1
        /\ (last_compile_time = NoTime \/ now - last_compile_time >= W))
       => /\ forwarded' = Append(forwarded, Attempt(recvCount', now, "leading", last_req))
          /\ last_compile_time' = now
          /\ sleep_deadline' = now + W
          /\ last_req' = NoTuple]_vars

C6_Witness ==
    \E i \in 1..Len(forwarded) :
        /\ forwarded[i].edge = "leading" /\ forwarded[i].over # NoTuple
        /\ i > 1 /\ forwarded[i].at - forwarded[i - 1].at = W

(***************************************************************************)
(* Claims about the daemon and the compiler (Spec)                         *)
(***************************************************************************)

\* The daemon received a request in this step
ReceivedRequest == Len(responses') = Len(responses) + 1

\* Responses i that got their CompileResult in this step
RepliedNow(i) ==
    /\ responses'[i].st = "replied"
    /\ i > Len(responses) \/ responses[i].st # "replied"

\* C1: while a latexmk request is parked, receiving another latexmk request
\* neither changes the pending slot nor drops the parked sender: the slot
\* changes only when a BuildFinished(true) event is processed.
C1_SecondRequestWaits ==
    [][(pending_response # NoReq /\ ReceivedRequest /\ backend' = "Latexmk")
       => /\ pending_response' = pending_response
          /\ responses'[pending_response].st = "parked"]_vars

\* C2: with spawn failed, every request taken for Latexmk (draft off) is
\* answered, with an output the Internal backend made.
C2_FallbackToInternal ==
    \A i \in 1..Len(responses) :
        (~latexmk /\ responses[i].backend = "Latexmk")
            => (responses[i].st = "replied" /\ responses[i].pdf.eng = "internal")

\* C7: on every reply the revision grows by exactly 1 if the output's hash
\* differs from last_pdf_hash and stays as it is otherwise; the reply carries
\* the revision after the update, and last_pdf_hash becomes the output's hash.
C7_RevisionRule ==
    [][\A i \in 1..Len(responses') :
          RepliedNow(i) =>
            /\ revision' = revision +
                  (IF AHash(responses'[i].pdf) # last_pdf_hash THEN 1 ELSE 0)
            /\ last_pdf_hash' = AHash(responses'[i].pdf)
            /\ responses'[i].revision = revision']_vars

\* a latexmk reply whose output equals the previous reply's and whose revision
\* did not grow, after an earlier reply that made it grow
C7_Witness ==
    \E i, j \in 1..Len(responses) :
        /\ i # j
        /\ responses[i].st = "replied" /\ responses[j].st = "replied"
        /\ responses[j].backend = "Latexmk" /\ responses[j].pdf.eng = "latexmk"
        /\ responses[j].pdf = responses[i].pdf
        /\ responses[j].revision = responses[i].revision
        /\ revision = responses[j].revision /\ revision >= 1

\* C8: once the backend was invoked for a (rewritten source, backend) pair and
\* succeeded, every later compile of that pair is served without invoking the
\* backend and returns the same bytes.
C8_OneInvocationPerInput ==
    \A i, j \in 1..Len(compileLog) :
        (/\ i < j
         /\ compileLog[i].key = compileLog[j].key
         /\ compileLog[i].invoked /\ compileLog[i].ok)
        => /\ ~compileLog[j].invoked
           /\ compileLog[j].ok
           /\ compileLog[j].pdf = compileLog[i].pdf

C8_Witness ==
    \E i, j \in 1..Len(compileLog) :
        /\ i < j /\ Len(responses) = Len(compileLog)
        /\ compileLog[i].key = compileLog[j].key
        /\ compileLog[i].backend = "Tectonic"
        /\ compileLog[i].invoked /\ compileLog[i].ok /\ ~compileLog[j].invoked
        /\ responses[j].st = "replied" /\ responses[j].pdf = responses[i].pdf

\* The call of compile made in this step ran tectonic and tectonic failed
TectonicFailedNow ==
    /\ Len(compileLog') = Len(compileLog) + 1
    /\ Last(compileLog').backend = "Tectonic"
    /\ Last(compileLog').invoked /\ ~Last(compileLog').ok

\* After a failed tectonic run, the next compile of the same pair runs it again
RetriedAfterFailure(log) ==
    \A i, j \in 1..Len(log) :
        (/\ i < j
         /\ log[i].backend = "Tectonic" /\ log[i].invoked /\ ~log[i].ok
         /\ log[j].key = log[i].key
         /\ \A m \in (i + 1)..(j - 1) : log[m].key # log[i].key)
        => log[j].invoked

\* C9: when tectonic fails the cache is left as it was and holds nothing for
\* that input, no CompileResult is sent (the sender is dropped), revision and
\* last_pdf_hash are unchanged, and the next compile of that input runs
\* tectonic again.
C9_FailureNotCached ==
    [][/\ TectonicFailedNow =>
            /\ cache' = cache
            /\ Last(compileLog').key \notin DOMAIN cache'
            /\ revision' = revision /\ last_pdf_hash' = last_pdf_hash
            /\ ReceivedRequest
            /\ SubSeq(responses', 1, Len(responses)) = responses
            /\ Last(responses').st = "dropped"
       /\ RetriedAfterFailure(compileLog')]_vars

C9_Witness ==
    \E i, j \in 1..Len(compileLog) :
        /\ i < j /\ Len(responses) = Len(compileLog)
        /\ compileLog[i].backend = "Tectonic" /\ compileLog[i].invoked /\ ~compileLog[i].ok
        /\ compileLog[j].key = compileLog[i].key /\ compileLog[j].invoked
        /\ responses[i].st = "dropped"

\* C10: a request with the draft flag set is compiled by the Internal backend
\* and answered in the same step; main.tex on disk is not written,
\* trigger_rebuild is not called and the pending slot (and the response parked
\* in it) is left as it was.
C10_DraftForcesInternal ==
    [][(ReceivedRequest /\ Last(responses').draft)
       => /\ backend' = "Internal"
          /\ Last(responses').st = "replied"
          /\ Last(responses').pdf.eng = "internal"
          /\ Last(compileLog').backend = "Internal" /\ Last(compileLog').ok
          /\ fs_main_tex' = fs_main_tex
          /\ triggers' = triggers
          /\ pending_response' = pending_response
          /\ SubSeq(responses', 1, Len(responses)) = responses]_vars

\* a draft request answered while another response is parked
C10_Witness ==
    /\ latexmk /\ pending_response # NoReq
    /\ responses # <<>> /\ Last(responses).draft /\ Last(responses).st = "replied"
    /\ responses[pending_response].st = "parked"

\* The daemon received an event in this step
ReceivedEvent == event_rx # <<>> /\ event_rx' = Tail(event_rx)

\* C11: a parked response gets its reply only in the step that processes a
\* BuildFinished(true) event: the reply carries main.pdf as it is on disk in
\* that step and the revision after the hash-comparison rule.  Processing a
\* BuildFinished(false) or a BuildStarted event sends nothing and leaves the
\* pending slot, the revision and last_pdf_hash as they were.
C11_ResolvedOnlyOnSuccess ==
    [][/\ \A i \in 1..Len(responses) :
            (responses[i].st = "parked" /\ responses'[i].st = "replied") =>
                /\ ReceivedEvent /\ Head(event_rx) = "BuildFinished(true)"
                /\ pending_response = i /\ pending_response' = NoReq
                /\ fs_main_pdf # <<>> /\ responses'[i].pdf = fs_main_pdf[1]
                /\ revision' = revision +
                      (IF AHash(fs_main_pdf[1]) # last_pdf_hash THEN 1 ELSE 0)
                /\ last_pdf_hash' = AHash(fs_main_pdf[1])
                /\ responses'[i].revision = revision'
       /\ (ReceivedEvent /\ Head(event_rx) \in {"BuildFinished(false)", "BuildStarted"})
            => UNCHANGED <<responses, pending_response, revision, last_pdf_hash>>]_vars

\* a parked response was resolved with the build's output after two builds
C11_Witness ==
    /\ latexmk /\ pending_response = NoReq /\ builds >= 2 /\ event_rx = <<>>
    /\ \E i \in 1..Len(responses) :
          /\ responses[i].backend = "Latexmk" /\ responses[i].st = "replied"
          /\ responses[i].pdf.eng = "latexmk" /\ responses[i].revision = 1
          /\ responses[i].synctex_data = "main.synctex"

\* C12: a Latexmk request received with the process alive runs the optimizer
\* (file_hashes is the optimizer's), then writes the optimizer's text to
\* main.tex, and only if that write succeeded calls trigger_rebuild once and
\* parks the response; if the write failed, main.tex and the pending slot are
\* as before, trigger_rebuild is not called and the sender is dropped.
C12_WriteThenTriggerThenPark ==
    [][(ReceivedRequest /\ latexmk /\ backend' = "Latexmk") =>
         \E req \in RequestInputs :
            /\ req.backend = "Latexmk" /\ ~req.draft
            /\ \E o \in {OptimizeLatex(req.latex, req.draft, req.focus_mode, vfs,
                                       req.active_file, file_hashes)} :
                  /\ file_hashes' = o.fh
                  /\ \/ /\ fs_main_tex' = <<o.latex>>
                        /\ triggers' = triggers + 1
                        /\ pending_response' = Len(responses')
                        /\ Last(responses').st = "parked"
                     \/ /\ fs_main_tex' = fs_main_tex
                        /\ triggers' = triggers
                        /\ pending_response' = pending_response
                        /\ SubSeq(responses', 1, Len(responses)) = responses
                        /\ Last(responses').st = "dropped"]_vars

\* one request lost its reply to a failed write, a later one is parked
C12_Witness ==
    /\ latexmk /\ triggers = 1 /\ fs_main_tex # <<>>
    /\ \E i, j \in 1..Len(responses) :
          /\ i < j /\ pending_response = j
          /\ responses[i].backend = "Latexmk" /\ responses[i].st = "dropped"
          /\ responses[j].st = "parked"

(***************************************************************************)
(* Claims about the scanner (SpecScan)                                     *)
(***************************************************************************)

\* The paths the file p refers to in the store v
Refs(p, v) == IF p \in DOMAIN v THEN SeqToSet(ChildPaths(v[p])) ELSE {}

\* The files reachable from the files of S, those of S included
RECURSIVE Reach(_, _)
Reach(S, v) ==
    IF (UNION {Refs(p, v) : p \in S}) \subseteq S THEN S
    ELSE Reach(S \cup UNION {Refs(p, v) : p \in S}, v)

\* The number of references the files of S make, repetitions counted
RECURSIVE TotalRefs(_, _)
TotalRefs(S, v) ==
    IF S = {} THEN 0
    ELSE (IF (CHOOSE p \in S : TRUE) \in DOMAIN v
          THEN Len(ChildPaths(v[CHOOSE p \in S : TRUE])) ELSE 0)
         + TotalRefs(S \ {CHOOSE p \in S : TRUE}, v)

ScanRoot == scan_nodes[1].name
ScanReachable == Reach({ScanRoot}, vfs)
ScanNames == {scan_nodes[i].name : i \in 1..Len(scan_nodes)}

\* No file of the include graph under the root is reachable from itself
ScanAcyclic == \A p \in ScanReachable : p \notin Reach(Refs(p, vfs), vfs)

\* The scan has returned: every call made has returned
ScanDone == scan_nodes # <<>> /\ \A i \in 1..Len(scan_nodes) : scan_nodes[i].st = "done"

\* The proper ancestors of node i in the tree
RECURSIVE Ancestors(_)
Ancestors(i) ==
    IF scan_nodes[i].parent = 0 THEN {}
    ELSE {scan_nodes[i].parent} \cup Ancestors(scan_nodes[i].parent)

HasChildren(i) == \E j \in 1..Len(scan_nodes) : scan_nodes[j].parent = i

\* C13 as stated: on an include graph without cycles the returned tree has as
\* many nodes as there are distinct files reachable from the root.
C13_NodeCountIsDistinctFiles ==
    (ScanDone /\ ScanAcyclic) => Len(scan_nodes) = Cardinality(ScanReachable)

\* C13: the names of the returned tree are exactly the files reachable from the
\* root, and every reference made by a reachable file has a node of its own,
\* so the tree has at least 1 + (number of references) nodes; it has as many
\* nodes as there are distinct reachable files when no file is referenced
\* more than once.
C13_OneNodePerReference ==
    ScanDone =>
        /\ ScanNames = ScanReachable
        /\ Len(scan_nodes) >= 1 + TotalRefs(ScanReachable, vfs)
        /\ (TotalRefs(ScanReachable, vfs) = Cardinality(ScanReachable) - 1)
              => Len(scan_nodes) = Cardinality(ScanReachable)

\* a finished scan of an acyclic graph with more nodes than distinct files
C13_Witness ==
    /\ ScanDone /\ ScanAcyclic
    /\ ScanNames = ScanReachable
    /\ Len(scan_nodes) > Cardinality(ScanReachable)

\* The returned tree: a node of a file not in the store has neither children
\* nor outline, and a node named like one of its ancestors is a childless leaf
ScanTreeWellFormed ==
    \A i \in 1..Len(scan_nodes) :
        /\ scan_nodes[i].name \notin DOMAIN vfs
              => (~HasChildren(i) /\ scan_nodes[i].outline = <<>>)
        /\ (\E j \in Ancestors(i) : scan_nodes[j].name = scan_nodes[i].name)
              => (~HasChildren(i) /\ ~scan_nodes[i].expanded
                  /\ scan_nodes[i].outline = <<>>)

\* C14: every scan returns, whatever the store holds (mutual includes, a file
\* including itself, a missing root), and the tree it returns is well formed:
\* a missing file is a node without children and outline, and no name occurs
\* twice on a root-to-node chain except as a childless leaf.
C14_ScanTerminates == <>(ScanDone /\ ScanTreeWellFormed)

\* a finished scan of a graph with a cycle, the repeated name a leaf
C14_Witness ==
    /\ ScanDone /\ ~ScanAcyclic
    /\ \E i \in 1..Len(scan_nodes) :
          /\ \E j \in Ancestors(i) : scan_nodes[j].name = scan_nodes[i].name
          /\ ~HasChildren(i)

(***************************************************************************)
(* Claims about the change detector and the optimizer (SpecOptimize)       *)
(***************************************************************************)

\* optimize_latex was called in this step; opt_call' holds the call
OptCalled == opt_call' # <<>> /\ opt_call' # opt_call

\* The paths the deltas of a call name
DeltaPaths(out) == {out.deltas[i].path : i \in 1..Len(out.deltas)}

\* The files the text of p names with \include or \input
IncRefs(p, v) ==
    IF p \in DOMAIN v
    THEN {TexPath(v[p][i].a[1]) : i \in {j \in 1..Len(v[p]) : v[p][j].k \in {"include", "input"}}}
    ELSE {}

\* The files reachable from the files of S along \include and \input, S included
RECURSIVE IncReach(_, _)
IncReach(S, v) ==
    IF (UNION {IncRefs(p, v) : p \in S}) \subseteq S THEN S
    ELSE IncReach(S \cup UNION {IncRefs(p, v) : p \in S}, v)

\* The transitive dependency set of p, and the files of it that can be read
DepSet(p, v) == IncReach(IncRefs(p, v), v)
Observed(v) == DepSet("main.tex", v) \cap DOMAIN v

\* Path p holds what was stored for it at its last observation
SameAsStored(p, fh, v) == IF p \in DOMAIN fh THEN fh[p] = AHash(v[p]) ELSE FALSE

\* The paths a call observes: none when the root text has no top-level unit
\* (compiler.rs:156-158 returns before the change detection)
ObservedBy(call, v) == IF call.out.units = <<>> THEN {} ELSE Observed(v)

\* C15: a path observed again with the content it had at its last observation
\* yields no FileDelta and keeps its stored hash; the table changes (or gains
\* an entry) only at paths for which a FileDelta is reported.
C15_UnchangedNotReported ==
    [][OptCalled =>
         /\ \A p \in Observed(vfs) :
               SameAsStored(p, file_hashes, vfs) =>
                   /\ p \notin DeltaPaths(opt_call'[1].out)
                   /\ file_hashes'[p] = file_hashes[p]
         /\ DOMAIN file_hashes \subseteq DOMAIN file_hashes'
         /\ \A q \in DOMAIN file_hashes' \ DeltaPaths(opt_call'[1].out) :
               q \in DOMAIN file_hashes /\ file_hashes'[q] = file_hashes[q]]_vars

\* a call on units that found every path as it was stored
C15_Witness ==
    /\ opt_call # <<>>
    /\ opt_call[1].out.units # <<>> /\ opt_call[1].out.deltas = <<>>
    /\ {"A.tex", "B.tex", "D.tex"} \subseteq DOMAIN file_hashes
    /\ \A p \in DOMAIN file_hashes : file_hashes[p] = AHash(vfs[p])

\* The deltas of the call that name p
DeltasFor(out, p) == {i \in 1..Len(out.deltas) : out.deltas[i].path = p}

\* C16: a path observed for the first time yields a FileDelta with old hash 0,
\* a path whose content hashes to something else than stored yields one with
\* the stored hash as old hash; either way the new hash is stored.  The
\* deltas of a call are those of exactly the observed paths that changed,
\* and each carries the new hash and the size of the content.
C16_ChangedReportedAndStored ==
    [][OptCalled =>
         /\ DeltaPaths(opt_call'[1].out) =
               {p \in ObservedBy(opt_call'[1], vfs) : ~SameAsStored(p, file_hashes, vfs)}
         /\ \A p \in DeltaPaths(opt_call'[1].out) :
               /\ Cardinality(DeltasFor(opt_call'[1].out, p)) = 1
               /\ \A i \in DeltasFor(opt_call'[1].out, p) :
                     /\ opt_call'[1].out.deltas[i].old_hash =
                           (IF p \in DOMAIN file_hashes THEN file_hashes[p] ELSE ZeroHash)
                     /\ opt_call'[1].out.deltas[i].new_hash = AHash(vfs[p])
                     /\ opt_call'[1].out.deltas[i].content_size = Len(vfs[p])
               /\ p \in DOMAIN file_hashes' /\ file_hashes'[p] = AHash(vfs[p])]_vars

\* a call that saw one path for the first time and another one modified
C16_Witness ==
    /\ opt_call # <<>>
    /\ \E i, j \in 1..Len(opt_call[1].out.deltas) :
          /\ opt_call[1].out.deltas[i].old_hash = ZeroHash
          /\ opt_call[1].out.deltas[j].old_hash # ZeroHash
          /\ opt_call[1].out.deltas[j].old_hash # opt_call[1].out.deltas[j].new_hash
          /\ file_hashes[opt_call[1].out.deltas[j].path] = opt_call[1].out.deltas[j].new_hash

\* Unit u's own file, or a file of its transitive dependency set, has a delta
UnitChanged(u, out, v) ==
    \/ TexPath(u) \in DeltaPaths(out)
    \/ DepSet(TexPath(u), v) \cap DeltaPaths(out) # {}

\* The text t carries \includeonly naming exactly the units of names, on the
\* line before \begin{document}
HasDirective(t, names) ==
    \E i \in 1..(Len(t) - 2) :
        /\ t[i].k = "includeonly" /\ SeqToSet(t[i].a) = names
        /\ t[i + 1] = NL /\ t[i + 2] = BeginDoc

NoDirective(t) == \A i \in 1..Len(t) : t[i].k # "includeonly"

\* C17: with no active file the affected units are exactly the top-level units
\* whose own file or a file of their transitive dependency set changed, and an
\* injected directive names exactly them.  In particular, on a root with
\* units A and B and \begin{document}, after a call that observed both, a
\* call that finds only B.tex modified injects \includeonly{B} and reports
\* is_incremental.
C17_DirectiveNamesChangedUnits ==
    [][(OptCalled /\ opt_call'[1].active_file = <<>>) =>
         /\ SeqToSet(opt_call'[1].out.affected) =
               {u \in SeqToSet(opt_call'[1].out.units) :
                   UnitChanged(u, opt_call'[1].out, vfs)}
         /\ opt_call'[1].out.is_incremental =>
               HasDirective(opt_call'[1].out.latex, SeqToSet(opt_call'[1].out.affected))
         /\ (/\ {"A", "B"} \subseteq SeqToSet(opt_call'[1].out.units)
             /\ Find(opt_call'[1].latex, BeginDoc) # 0
             /\ {"A.tex", "B.tex"} \subseteq DOMAIN file_hashes
             /\ {p \in Observed(vfs) : ~SameAsStored(p, file_hashes, vfs)} = {"B.tex"})
            => /\ opt_call'[1].out.is_incremental
               /\ HasDirective(opt_call'[1].out.latex, {"B"})]_vars

\* the two-unit root after an edit of B.tex alone
C17_Witness ==
    /\ opt_call # <<>>
    /\ opt_call[1].active_file = <<>> /\ opt_call[1].latex = RootAB
    /\ DeltaPaths(opt_call[1].out) = {"B.tex"}
    /\ opt_call[1].out.deltas[1].old_hash # ZeroHash
    /\ opt_call[1].out.is_incremental
    /\ HasDirective(opt_call[1].out.latex, {"B"})

\* The units whose file holds text that contains \bibliography or
\* \printbibliography
BibUnits(units, v) ==
    {u \in SeqToSet(units) :
        IF TexPath(u) \in DOMAIN v
        THEN \E i \in 1..Len(v[TexPath(u)]) :
                v[TexPath(u)][i].k \in
                    {"bibliography", "bibliographystyle", "printbibliography"}
        ELSE FALSE}

\* C18: in focus mode with the active file A a top-level unit, the affected
\* units are A followed by every unit whose file contains a bibliography
\* command, each once, whatever changed; with B the unit that has one, they
\* are exactly A, B.
C18_FocusKeepsActiveAndBibliography ==
    [][(/\ OptCalled
        /\ opt_call'[1].focus_mode /\ opt_call'[1].active_file = <<"A.tex">>
        /\ "A" \in SeqToSet(opt_call'[1].out.units)) =>
         /\ SeqToSet(opt_call'[1].out.affected) =
               {"A"} \cup BibUnits(opt_call'[1].out.units, vfs)
         /\ Len(opt_call'[1].out.affected) =
               Cardinality(SeqToSet(opt_call'[1].out.affected))
         /\ opt_call'[1].out.affected[1] = "A"
         /\ BibUnits(opt_call'[1].out.units, vfs) = {"B"}
               => opt_call'[1].out.affected = <<"A", "B">>
         /\ opt_call'[1].out.is_incremental =>
               HasDirective(opt_call'[1].out.latex, SeqToSet(opt_call'[1].out.affected))]_vars

\* focus on A while C.tex changed: the directive names A and B only
C18_Witness ==
    /\ opt_call # <<>>
    /\ opt_call[1].focus_mode /\ opt_call[1].active_file = <<"A.tex">>
    /\ opt_call[1].out.units = <<"A", "B", "C">>
    /\ "C.tex" \in DeltaPaths(opt_call[1].out)
    /\ opt_call[1].out.affected = <<"A", "B">>
    /\ HasDirective(opt_call[1].out.latex, {"A", "B"})

\* C19: if the affected units are none or cover every top-level unit, no
\* directive is injected and is_incremental is false; a directive is injected
\* only if the affected units are some but not all of the top-level units.
C19_DirectiveOnlyForProperSubset ==
    [][OptCalled =>
         /\ (\/ opt_call'[1].out.affected = <<>>
             \/ SeqToSet(opt_call'[1].out.units) \subseteq SeqToSet(opt_call'[1].out.affected))
            => (~opt_call'[1].out.is_incremental /\ NoDirective(opt_call'[1].out.latex))
         /\ ~NoDirective(opt_call'[1].out.latex)
            => /\ opt_call'[1].out.affected # <<>>
               /\ SeqToSet(opt_call'[1].out.affected) \subseteq SeqToSet(opt_call'[1].out.units)
               /\ SeqToSet(opt_call'[1].out.affected) # SeqToSet(opt_call'[1].out.units)]_vars

\* The active file of the call names one of its top-level units
ActiveIsUnit(call) ==
    IF call.active_file = <<>> THEN FALSE
    ELSE StripTex(call.active_file[1]) \in SeqToSet(call.out.units)

\* C20 as stated: the first call of a fresh compiler never injects a directive.
C20_FirstBuildNeverScoped ==
    [][(OptCalled /\ file_hashes = <<>> /\ opt_call'[1].out.units # <<>>) =>
         (~opt_call'[1].out.is_incremental /\ NoDirective(opt_call'[1].out.latex))]_vars

\* The units a first call is expected to keep: in focus mode on an active
\* top-level unit, that unit and the bibliography units; otherwise the units
\* with a file of their own or of their dependency set among those gathered
\* from main.tex in the store, and the active unit if there is one
FirstCallAffected(call, v) ==
    IF call.focus_mode /\ ActiveIsUnit(call)
    THEN {StripTex(call.active_file[1])} \cup BibUnits(call.out.units, v)
    ELSE {u \in SeqToSet(call.out.units) :
             ({TexPath(u)} \cup DepSet(TexPath(u), v)) \cap Observed(v) # {}}
         \cup (IF ActiveIsUnit(call) THEN {StripTex(call.active_file[1])} ELSE {})

\* C20: the first call of a fresh compiler is scope-limited exactly when the
\* units it keeps are some but fewer than the top-level units of a root with
\* \begin{document}: it keeps, in focus mode on an active top-level unit,
\* that unit and the bibliography units, and otherwise the units that have a
\* file gathered from main.tex in the store (plus the active unit).  It
\* injects nothing when it is not a focus-mode call on an active unit and
\* the file of every top-level unit was gathered.
C20_FirstBuildScopedOnlyByFocusOrMissingUnit ==
    [][(OptCalled /\ file_hashes = <<>> /\ opt_call'[1].out.units # <<>>) =>
         /\ SeqToSet(opt_call'[1].out.affected) = FirstCallAffected(opt_call'[1], vfs)
         /\ opt_call'[1].out.is_incremental <=>
               /\ opt_call'[1].out.affected # <<>>
               /\ Len(opt_call'[1].out.affected) < Len(opt_call'[1].out.units)
               /\ Find(opt_call'[1].latex, BeginDoc) # 0
         /\ IF opt_call'[1].out.is_incremental
            THEN HasDirective(opt_call'[1].out.latex, FirstCallAffected(opt_call'[1], vfs))
            ELSE NoDirective(opt_call'[1].out.latex)
         /\ (/\ ~(opt_call'[1].focus_mode /\ ActiveIsUnit(opt_call'[1]))
             /\ \A u \in SeqToSet(opt_call'[1].out.units) : TexPath(u) \in Observed(vfs))
            => ~opt_call'[1].out.is_incremental]_vars

\* a focus-mode call that observed every path for the first time and injected
C20_Witness ==
    /\ opt_call # <<>>
    /\ opt_call[1].focus_mode /\ opt_call[1].active_file = <<"A.tex">>
    /\ opt_call[1].out.is_incremental
    /\ file_hashes # <<>> /\ DeltaPaths(opt_call[1].out) = DOMAIN file_hashes
    /\ \A i \in 1..Len(opt_call[1].out.deltas) : opt_call[1].out.deltas[i].old_hash = ZeroHash

(***************************************************************************)
(* Claims about draft handling (SpecDraft)                                 *)
(***************************************************************************)

\* C21: draft set and then draft clear on a source gives back the source,
\* token for token, whatever its \documentclass option list is.
C21_DraftRoundTrip ==
    draft_flags = <<TRUE, FALSE>> => draft_cur = draft_src

(***************************************************************************)
(* Further claims about the optimizer (SpecOptimize)                       *)
(***************************************************************************)

\* C22: a call on a root with top-level units runs main.tex itself through
\* the change detector: afterwards the hash table has an entry for main.tex,
\* and a main.tex whose content is not what is stored yields a FileDelta.
C22_RootIsObserved ==
    [][(OptCalled /\ opt_call'[1].out.units # <<>> /\ "main.tex" \in DOMAIN vfs) =>
         /\ "main.tex" \in DOMAIN file_hashes'
         /\ ~SameAsStored("main.tex", file_hashes, vfs)
               => "main.tex" \in DeltaPaths(opt_call'[1].out)]_vars

\* The unit the active file of the call names
ActiveBase(call) == StripTex(call.active_file[1])

\* C23 as stated: outside focus mode an active top-level unit is always among
\* the affected units, and a call that found nothing changed on a root with
\* at least two units injects a directive naming exactly the active unit.
C23_ActiveUnitAlwaysInjected ==
    [][(OptCalled /\ ~opt_call'[1].focus_mode /\ ActiveIsUnit(opt_call'[1])) =>
         /\ ActiveBase(opt_call'[1]) \in SeqToSet(opt_call'[1].out.affected)
         /\ (opt_call'[1].out.deltas = <<>> /\ Len(opt_call'[1].out.units) >= 2)
            => /\ opt_call'[1].out.is_incremental
               /\ HasDirective(opt_call'[1].out.latex, {ActiveBase(opt_call'[1])})]_vars

\* C23: outside focus mode an active top-level unit is always among the
\* affected units; a call that found nothing changed keeps exactly that unit
\* and, on a root with at least two units, injects a directive naming exactly
\* it if the root has \begin{document} and no directive if it has not.
C23_ActiveUnitAlwaysAffected ==
    [][(OptCalled /\ ~opt_call'[1].focus_mode /\ ActiveIsUnit(opt_call'[1])) =>
         /\ ActiveBase(opt_call'[1]) \in SeqToSet(opt_call'[1].out.affected)
         /\ (opt_call'[1].out.deltas = <<>> /\ Len(opt_call'[1].out.units) >= 2)
            => /\ opt_call'[1].out.affected = <<ActiveBase(opt_call'[1])>>
               /\ IF Find(opt_call'[1].latex, BeginDoc) # 0
                  THEN /\ opt_call'[1].out.is_incremental
                       /\ HasDirective(opt_call'[1].out.latex, {ActiveBase(opt_call'[1])})
                  ELSE /\ ~opt_call'[1].out.is_incremental
                       /\ NoDirective(opt_call'[1].out.latex)]_vars

\* a second call outside focus mode, nothing changed, that names the active unit
C23_Witness ==
    /\ opt_call # <<>>
    /\ ~opt_call[1].focus_mode /\ opt_call[1].active_file = <<"A.tex">>
    /\ opt_call[1].latex = RootABC
    /\ opt_call[1].out.deltas = <<>> /\ file_hashes # <<>>
    /\ opt_call[1].out.is_incremental
    /\ HasDirective(opt_call[1].out.latex, {"A"})

\* C24: on a root text without a top-level \include the call returns the
\* text with draft handling alone applied, is_incremental false and no
\* FileDelta, and leaves the hash table as it was.
C24_NoUnitsSkipsScopeLimiting ==
    [][(OptCalled /\ \A i \in 1..Len(opt_call'[1].latex) :
                        opt_call'[1].latex[i].k # "include") =>
         /\ opt_call'[1].out.latex = ApplyDraftMode(opt_call'[1].latex, opt_call'[1].draft)
         /\ NoDirective(opt_call'[1].out.latex)
         /\ ~opt_call'[1].draft => opt_call'[1].out.latex = opt_call'[1].latex
         /\ ~opt_call'[1].out.is_incremental
         /\ opt_call'[1].out.deltas = <<>>
         /\ file_hashes' = file_hashes]_vars

\* a call on the root without units while a file differs from what is stored
C24_Witness ==
    /\ opt_call # <<>>
    /\ opt_call[1].latex = RootPlain /\ opt_call[1].active_file = <<"A.tex">>
    /\ opt_call[1].out.deltas = <<>> /\ ~opt_call[1].out.is_incremental
    /\ "A.tex" \in DOMAIN file_hashes /\ file_hashes["A.tex"] # AHash(vfs["A.tex"])

\* The positions of the \includeonly commands of a text
DirectiveAt(t) == {i \in 1..Len(t) : t[i].k = "includeonly"}

\* C30: an injected directive stands, followed by a newline, immediately
\* before the first \begin{document} and lists the affected units; nothing
\* else of the text differs from draft handling of the source;
\* is_incremental is true exactly when the returned text holds the
\* directive, and a root without \begin{document} is returned without a
\* directive and with is_incremental false.
C30_DirectiveBeforeFirstMarker ==
    [][OptCalled =>
         /\ opt_call'[1].out.is_incremental <=> DirectiveAt(opt_call'[1].out.latex) # {}
         /\ \A i \in DirectiveAt(opt_call'[1].out.latex) :
               /\ DirectiveAt(opt_call'[1].out.latex) = {i}
               /\ opt_call'[1].out.latex[i] = IncludeOnly(opt_call'[1].out.affected)
               /\ opt_call'[1].out.affected # <<>>
               /\ i + 2 <= Len(opt_call'[1].out.latex)
               /\ opt_call'[1].out.latex[i + 1] = NL
               /\ opt_call'[1].out.latex[i + 2] = BeginDoc
               /\ \A j \in 1..(i + 1) : opt_call'[1].out.latex[j] # BeginDoc
               /\ SubSeq(opt_call'[1].out.latex, 1, i - 1)
                     \o SubSeq(opt_call'[1].out.latex, i + 2, Len(opt_call'[1].out.latex))
                  = ApplyDraftMode(opt_call'[1].latex, opt_call'[1].draft)
         /\ (\A j \in 1..Len(opt_call'[1].latex) : opt_call'[1].latex[j] # BeginDoc)
            => /\ ~opt_call'[1].out.is_incremental
               /\ opt_call'[1].out.latex = ApplyDraftMode(opt_call'[1].latex, opt_call'[1].draft)]_vars

\* a directive injected into the root that has the marker twice, and a call
\* with affected units on the root that has none
C30_Witness ==
    /\ opt_call # <<>>
    /\ opt_call[1].latex = RootTwoBegin /\ opt_call[1].draft
    /\ opt_call[1].out.is_incremental
    /\ opt_call[1].out.latex[3] = IncludeOnly(<<"B">>)

(***************************************************************************)
(* Further claims about the scanner (SpecScan)                             *)
(***************************************************************************)

\* The extension that goes with a command
KindExt(k) == CASE k = "bibliography" -> ".bib" [] k = "usepackage" -> ".sty" [] OTHER -> ".tex"

\* The paths the commands of a text stand for when the extension is chosen by
\* the command alone
RECURSIVE PathsByCommand(_)
PathsByCommand(t) ==
    IF t = <<>> THEN <<>>
    ELSE (IF Head(t).k \in DepKinds
          THEN LET parts == [i \in 1..Len(Head(t).a) |-> TrimPiece(Head(t).a[i])]
                   kept == FilterSeq(parts, {i \in 1..Len(parts) : parts[i] # ""})
               IN [i \in 1..Len(kept) |->
                      IF EndsWith(kept[i], KindExt(Head(t).k)) THEN kept[i]
                      ELSE kept[i] \o KindExt(Head(t).k)]
          ELSE <<>>) \o PathsByCommand(Tail(t))

\* The names of the children made for node i, in order
ChildNames(i) ==
    LET idx == SortSet({j \in 1..Len(scan_nodes) : scan_nodes[j].parent = i})
    IN [k \in 1..Len(idx) |-> scan_nodes[idx[k]].name]

\* C26: the children of an expanded file are named by its dependency
\* arguments with the extension of their command appended when absent: .bib
\* for \bibliography, .sty for \usepackage, .tex for \input and \include,
\* whatever the argument says.
C26_ExtensionByCommand ==
    \A i \in 1..Len(scan_nodes) :
        scan_nodes[i].expanded =>
            ChildNames(i) = PathsByCommand(vfs[scan_nodes[i].name])

(***************************************************************************)
(* Claims about the virtual file store (SpecVfs)                           *)
(***************************************************************************)

\* What the k-th insert to path q put there, as read_file returns it; nothing
\* for k = 0
VfsValue(q, k) == IF k = 0 THEN <<>> ELSE <<vfs_written[q][k]>>

\* A read returned the whole content of one write to its path, no older than
\* the last write that had returned when the read was called and no newer than
\* the last one inserted when the read returned; None only if no write to the
\* path had returned when the read was called
VfsReadsAtomic ==
    \A i \in 1..Len(vfs_reads) :
        \E k \in vfs_reads[i].from..vfs_reads[i].upto :
            vfs_reads[i].res = VfsValue(vfs_reads[i].path, k)

\* A step changes the entry of a path only by putting there what a write_file
\* call on that path was given; no entry disappears
VfsWriteOwnPath ==
    /\ DOMAIN vfs \subseteq DOMAIN vfs'
    /\ \A q \in DOMAIN vfs' :
          (IF q \in DOMAIN vfs THEN vfs'[q] # vfs[q] ELSE TRUE) =>
              \E t \in VfsTasks :
                  /\ vfs_task[t].op = "write" /\ vfs_task[t].path = q
                  /\ vfs'[q] = vfs_task[t].text

\* C27: under every interleaving of writers and readers read_file returns the
\* content of the most recent write to the path that has completed (None if
\* there is none), never a mix of two writes, and write_file changes the
\* entry of its own path only.
C27_StoreIsAtomicPerPath == []VfsReadsAtomic /\ [][VfsWriteOwnPath]_vars

\* a read that ran while a write to its path was under way and returned the
\* new content, after a read of a path never written
C27_Witness ==
    \E i, j \in 1..Len(vfs_reads) :
        /\ vfs_reads[i].res = <<>> /\ vfs_reads[i].upto = 0
        /\ vfs_reads[j].from < vfs_reads[j].upto
        /\ vfs_reads[j].res = VfsValue(vfs_reads[j].path, vfs_reads[j].upto)
        /\ Len(vfs_written[vfs_reads[j].path]) >= 2

(***************************************************************************)
(* Claims about the Internal backend (SpecInternal)                        *)
(***************************************************************************)

\* The text of the first n lines of t: what stands before the n-th newline, or
\* all of t, less a final newline, if t has fewer
FirstLines(t, n) ==
    LET idx == SortSet({i \in 1..Len(t) : t[i] = NL})
    IN IF Len(idx) >= n THEN SubSeq(t, 1, idx[n] - 1)
       ELSE IF t # <<>> /\ t[Len(t)] = NL THEN SubSeq(t, 1, Len(t) - 1)
       ELSE t

\* C28: the Internal backend always returns an output, and two sources that
\* agree on their first 60 lines get the same output, whatever follows; when
\* one is compiled right after the other the revision stays as it is.
C28_InternalDependsOnPrefix ==
    /\ \A i \in 1..Len(int_runs) : int_runs[i].out.eng = "internal"
    /\ \A i, j \in 1..Len(int_runs) :
          FirstLines(int_runs[i].src, InternalLines)
             = FirstLines(int_runs[j].src, InternalLines)
          => /\ int_runs[i].out = int_runs[j].out
             /\ j = i + 1 => int_runs[j].revision = int_runs[i].revision

\* two different sources that agree on 60 lines, compiled one after the other
C28_Witness ==
    /\ Len(int_runs) = 2
    /\ int_runs[1].src # int_runs[2].src
    /\ Len(int_runs[2].src) > Len(int_runs[1].src) + 2
    /\ FirstLines(int_runs[1].src, InternalLines) = FirstLines(int_runs[2].src, InternalLines)
    /\ int_runs[1].out = int_runs[2].out
    /\ int_runs[2].revision = 1

(***************************************************************************)
(* Claims about the supervisor's reader (SpecReader)                       *)
(***************************************************************************)

\* Event ev is the one that goes with line l
EventFits(ev, l) ==
    /\ ev = "BuildFinished(true)" <=> (l.all /\ l.utd)
    /\ ev = "BuildStarted" <=> (~(l.all /\ l.utd) /\ l.run)
    /\ ev = "BuildFinished(false)" <=> (~(l.all /\ l.utd) /\ ~l.run /\ l.err)

\* Line l carries a marker combination that stands for an event
HasEvent(l) == (l.all /\ l.utd) \/ l.run \/ l.err

\* C25: the reader sends at most one event per line, in the order of the
\* lines: success for a line with both success markers, else started for one
\* with the run marker, else failure for one with the error marker, nothing
\* for any other line; while the daemon holds the receiver every such event
\* gets into the channel (the reader waits while the channel holds 10) and
\* stays there, in order, until the daemon receives it.
C25_ReaderClassifiesInOrder ==
    /\ \A i, j \in 1..Len(rd_sent) : i < j => rd_sent[i].line < rd_sent[j].line
    /\ \A i \in 1..Len(rd_sent) :
          /\ rd_sent[i].line \in 1..rd_pos
          /\ HasEvent(rd_lines[rd_sent[i].line])
          /\ EventFits(rd_sent[i].ev, rd_lines[rd_sent[i].line])
    /\ Len(event_rx) <= EventCap
    /\ rd_alive =>
          /\ \A n \in 1..rd_pos :
                HasEvent(rd_lines[n]) =>
                    IF n = rd_pos /\ rd_pending # <<>>
                    THEN EventFits(rd_pending[1], rd_lines[n])
                    ELSE \E i \in 1..Len(rd_sent) : rd_sent[i].line = n
          /\ rd_pending # <<>> => HasEvent(rd_lines[rd_pos])
          /\ rd_recv + Len(event_rx) = Len(rd_sent)
          /\ \A k \in 1..Len(event_rx) : event_rx[k] = rd_sent[rd_recv + k].ev

\* eleven events sent into the channel of ten, the last a failure, after a
\* line without markers, the daemon having received one
C25_Witness ==
    /\ rd_alive /\ rd_pending = <<>>
    /\ Len(rd_sent) = EventCap + 1 /\ rd_recv = 1 /\ Len(event_rx) = EventCap
    /\ rd_sent[EventCap + 1].ev = "BuildFinished(false)"
    /\ rd_pos = EventCap + 2
    /\ \E n \in 1..rd_pos : ~HasEvent(rd_lines[n])

(***************************************************************************)
(* Further claims about the debouncer (SpecDebounce)                       *)
(***************************************************************************)

\* No tuple was forwarded twice; the held tuple, if any, is the one received
\* last and has not been forwarded; once the window has run out after the
\* last tuple it has been forwarded exactly once
ForwardedOnce ==
    /\ \A i, j \in 1..Len(forwarded) : i # j => forwarded[i].id # forwarded[j].id
    /\ last_req # NoTuple =>
          /\ last_req = recvCount
          /\ \A i \in 1..Len(forwarded) : forwarded[i].id # last_req
    /\ (recvCount > 0 /\ now - lastRecvTime >= W /\ ~TimerDue) =>
          Cardinality({i \in 1..Len(forwarded) : forwarded[i].id = recvCount}) = 1

\* A step forwards at most one tuple, the one received last: at the leading
\* edge the tuple just received, with nothing held afterwards; at the trailing
\* edge the held tuple, which is held no longer.  A tuple received and not
\* forwarded takes the place of the held one.
ForwardsNewestOnly ==
    /\ forwarded' # forwarded =>
          /\ Len(forwarded') = Len(forwarded) + 1
          /\ SubSeq(forwarded', 1, Len(forwarded)) = forwarded
          /\ Last(forwarded').id = recvCount'
          /\ last_req' = NoTuple
          /\ Last(forwarded').edge = "trailing" =>
                (recvCount' = recvCount /\ Last(forwarded').id = last_req
                 /\ now >= sleep_deadline)
          /\ Last(forwarded').edge = "leading" => recvCount' = recvCount + 1
    /\ (recvCount' # recvCount /\ forwarded' = forwarded) => last_req' = recvCount'

\* C29: each tuple is forwarded at most once: one forwarded at the leading
\* edge is not held, at most one tuple is held, a held tuple replaced by a
\* newer one is never forwarded, and the held tuple is forwarded exactly once
\* when the window runs out with no further input.
C29_EachTupleForwardedAtMostOnce == []ForwardedOnce /\ [][ForwardsNewestOnly]_vars

\* the first of three tuples went out at the leading edge, the second was
\* replaced by the third, the third went out at the trailing edge
C29_Witness ==
    /\ recvCount = 3 /\ last_req = NoTuple
    /\ Len(forwarded) = 2
    /\ forwarded[1].id = 1 /\ forwarded[1].edge = "leading"
    /\ forwarded[2].id = 3 /\ forwarded[2].edge = "trailing"
    /\ forwarded[2].at < forwarded[1].at + 2 * W

(***************************************************************************)
(* Claims about the editor (SpecEditor)                                    *)
(***************************************************************************)

\* The cursor lies within the buffer or at its end
CursorInBuffer == ed_cursor \in 0..Len(ed_buffer)

\* The buffer with the character at char index c taken out
WithoutChar(buf, c) == SubSeq(buf, 1, c) \o SubSeq(buf, c + 2, Len(buf))

\* The buffer with ch put in at char index c
WithChar(buf, c, ch) == SubSeq(buf, 1, c) \o <<ch>> \o SubSeq(buf, c + 1, Len(buf))

\* What a call of handle_key did, by the mode it found and its key
EditorStep ==
    ed_key' # ed_key \/ ed_buffer' # ed_buffer \/ ed_cursor' # ed_cursor \/ ed_mode' # ed_mode
        => LET c == ed_key'[1] IN
           /\ (ed_mode = "Normal" /\ c = "i") =>
                 ed_mode' = "Insert" /\ ed_buffer' = ed_buffer /\ ed_cursor' = ed_cursor
           /\ (ed_mode = "Insert" /\ c # Esc) =>
                 /\ ed_buffer' = WithChar(ed_buffer, ed_cursor, c)
                 /\ ed_cursor' = ed_cursor + 1
                 /\ ed_mode' = "Insert"
           /\ (ed_mode = "Insert" /\ c = Esc) =>
                 ed_mode' = "Normal" /\ ed_buffer' = ed_buffer
           /\ (ed_mode = "Normal" /\ c = "h") =>
                 /\ ed_cursor' = (IF ed_cursor = 0 THEN 0 ELSE ed_cursor - 1)
                 /\ ed_buffer' = ed_buffer /\ ed_mode' = "Normal"
           /\ (ed_mode = "Normal" /\ c = "x") =>
                 /\ ed_buffer' = (IF ed_cursor = Len(ed_buffer) THEN ed_buffer
                                  ELSE WithoutChar(ed_buffer, ed_cursor))
                 /\ ed_cursor' = ed_cursor /\ ed_mode' = "Normal"

\* C31: the editor starts in Normal mode (no key handled means Normal mode,
\* an empty buffer and the cursor at 0) and keeps its cursor within the
\* buffer; "i" in Normal mode enters Insert mode; in Insert mode a key other
\* than Escape is put in at the cursor, which moves one on, and Escape gives
\* Normal mode with the text as it was; in Normal mode "h" moves the cursor
\* one to the left but not below 0, and "x" takes out exactly the character
\* under the cursor, or nothing when the cursor is at the end.
C31_EditorIsModal ==
    /\ [](ed_key = <<>> => ed_mode = "Normal" /\ ed_buffer = <<>> /\ ed_cursor = 0)
    /\ []CursorInBuffer
    /\ [][EditorStep]_vars

\* "x" was typed in Normal mode with the cursor inside a full buffer, whose
\* characters had been typed in Insert mode
C31_Witness ==
    /\ ed_key = <<"x", "Normal">>
    /\ Len(ed_buffer) = MaxBuf - 1 /\ ed_cursor = 0

(***************************************************************************)
(* Further claims about the daemon (Spec)                                  *)
(***************************************************************************)

\* The step resolves the parked response with a CompileResult
ParkedReplied ==
    /\ pending_response # NoReq
    /\ responses'[pending_response].st = "replied"

\* C32: the reply to a request parked for latexmk carries the output of a
\* build of the text the daemon wrote to main.tex for that request.  Only a
\* parking request writes main.tex, so while a response is parked the file
\* holds the text of its request.
C32_ReplyIsOfOwnSource ==
    [][ParkedReplied =>
          responses'[pending_response].pdf = Pdf("latexmk", fs_main_tex[1], 1)]_vars

\* The response of request i is parked in the pending slot
Parked(i) == i <= Len(responses) /\ responses[i].st = "parked"

\* A BuildFinished(false) event is next in the channel while request i is parked
FailureAtHand(i) ==
    /\ Parked(i)
    /\ event_rx # <<>> /\ Head(event_rx) = "BuildFinished(false)"

\* C33: every request the daemon accepted is answered or cancelled in the
\* end; in particular a request that is parked when a BuildFinished(false)
\* event arrives does not stay parked.
C33_NoCallerWaitsForever ==
    \A i \in 1..MaxReq : FailureAtHand(i) ~> ~Parked(i)

\* The responses that carry a CompileResult
Replied == {i \in 1..Len(responses) : responses[i].st = "replied"}

\* C34: two replies of the daemon with the same revision carry the same
\* output, and a reply never has a smaller revision than a reply sent before
\* it (replies are sent in another order than the requests came when a
\* response was parked).
C34_RevisionNamesOneOutput ==
    /\ [](\A i, j \in Replied :
             responses[i].revision = responses[j].revision
                => responses[i].pdf = responses[j].pdf)
    /\ [][\A i \in 1..Len(responses') :
             RepliedNow(i) =>
                \A j \in Replied : responses[j].revision <= responses'[i].revision]_vars

\* the parked first request was answered after the second one, with another
\* output and the greater revision
C34_Witness ==
    /\ Replied = {1, 2}
    /\ responses[1].backend = "Latexmk" /\ responses[2].backend # "Latexmk"
    /\ responses[1].pdf # responses[2].pdf
    /\ responses[2].revision = 1 /\ responses[1].revision = 2

\* The daemon takes a BuildFinished(true) event while a response is parked
SuccessWhileParked ==
    /\ ReceivedEvent /\ Head(event_rx) = "BuildFinished(true)"
    /\ pending_response # NoReq

\* C35: when a BuildFinished(true) event is taken while a response is parked,
\* the slot is emptied whether or not main.pdf can be read; if it cannot (as
\* when there is no main.pdf) the parked sender is dropped without a reply and
\* revision and last_pdf_hash stay as they are.  A dropped response stays
\* dropped, and an event taken while the slot is empty changes no response.
C35_UnreadableArtifactDropsParked ==
    [][/\ SuccessWhileParked =>
            /\ pending_response' = NoReq
            /\ responses'[pending_response].st \in {"replied", "dropped"}
            /\ fs_main_pdf = <<>> => responses'[pending_response].st = "dropped"
            /\ responses'[pending_response].st = "dropped" =>
                  /\ revision' = revision /\ last_pdf_hash' = last_pdf_hash
                  /\ responses'[pending_response].pdf = NoPdf
                  /\ \A j \in 1..Len(responses) :
                        j # pending_response => responses'[j] = responses[j]
       /\ \A i \in 1..Len(responses) :
             responses[i].st = "dropped" => responses'[i] = responses[i]
       /\ (ReceivedEvent /\ pending_response = NoReq) =>
             UNCHANGED <<responses, pending_response, revision, last_pdf_hash>>]_vars

\* the only request was parked (its text was written and the rebuild
\* triggered) and then dropped by a success event whose main.pdf could not be
\* read; the events of a later build were taken with the slot empty
C35_Witness ==
    /\ Len(responses) = 1 /\ triggers = 1
    /\ responses[1].backend = "Latexmk" /\ responses[1].st = "dropped"
    /\ pending_response = NoReq /\ revision = 0 /\ last_pdf_hash = ZeroHash
    /\ builds = 2 /\ lmk_build = <<>> /\ event_rx = <<>> /\ fs_main_pdf # <<>>

(***************************************************************************)
(* Claims about changes the optimizer saw in focus mode (SpecOptimize)     *)
(***************************************************************************)

\* The call recorded found unit u's file changed and, being in focus mode on
\* another active unit, left u out of the affected units
LeftOutByFocus(call, u) ==
    /\ call.focus_mode
    /\ call.active_file # <<>> /\ StripTex(call.active_file[1]) # u
    /\ u \in SeqToSet(call.out.units)
    /\ TexPath(u) \in DeltaPaths(call.out)
    /\ u \notin SeqToSet(call.out.affected)

\* C36: when a call in focus mode on the active unit found the file of
\* another unit u changed and left u out, the next call, made without focus
\* mode on a root that has u and with no edit in between, has u among its
\* affected units.
C36_ChangeSurvivesFocus ==
    [][(OptCalled /\ opt_call # <<>> /\ ~opt_call'[1].focus_mode) =>
          \A u \in UnitNames :
             (LeftOutByFocus(opt_call[1], u) /\ u \in SeqToSet(opt_call'[1].out.units))
                => u \in SeqToSet(opt_call'[1].out.affected)]_vars

(***************************************************************************)
(* Claims about the scanner's sibling workers (SpecScan)                   *)
(***************************************************************************)

\* C38: in the tree a scan returns no file is expanded (read, given outline
\* and children) at two nodes, however the calls for sibling subtrees
\* interleave on the visited set.
C38_EachFileExpandedOnce ==
    \A i, j \in 1..Len(scan_nodes) :
        (i # j /\ scan_nodes[i].name = scan_nodes[j].name)
            => ~(scan_nodes[i].expanded /\ scan_nodes[j].expanded)

(***************************************************************************)
(* Claims about the parallel change detection (SpecObserve)                *)
(***************************************************************************)

\* Every closure of the par_iter has returned
ObsDone == obs_task # <<>> /\ \A i \in 1..Len(obs_task) : obs_task[i].pc = "done"

\* The items of the list that are path p, and those of them that returned a FileDelta
ObsItems(p) == {i \in 1..Len(obs_task) : obs_task[i].path = p}
ObsDeltas(p) == {i \in ObsItems(p) : obs_task[i].delta # <<>>}

\* The hashes the closures of path p read
ObsRead(p) == {obs_task[i].new_hash : i \in ObsItems(p)}

\* C37 as stated: when the call's change detection is over, a path with a
\* FileDelta has exactly one.
C37_OneDeltaPerChangedPath ==
    ObsDone => \A p \in SeqToSet(obs_list) : Cardinality(ObsDeltas(p)) <= 1

\* C37: a path of the list whose closures all read the same content has one
\* FileDelta, with the hash the call found stored as old hash, if that content
\* is not what the call found stored, and none otherwise, and the table ends
\* with that content's hash, however the closures interleave.  In any case a
\* FileDelta goes with one insert into the table: the table ends with a hash
\* one of the closures read, and with the hash it began with where there is
\* no FileDelta.
C37_OneDeltaPerStablePath ==
    ObsDone =>
       \A p \in SeqToSet(obs_list) :
          /\ (Cardinality(ObsRead(p)) = 1) =>
                \E h \in ObsRead(p) :
                   /\ file_hashes[p] = h
                   /\ IF p \in DOMAIN obs_fh0 /\ obs_fh0[p] = h
                      THEN ObsDeltas(p) = {}
                      ELSE /\ Cardinality(ObsDeltas(p)) = 1
                           /\ \A i \in ObsDeltas(p) :
                                 /\ obs_task[i].delta[1].new_hash = h
                                 /\ obs_task[i].delta[1].old_hash =
                                       (IF p \in DOMAIN obs_fh0 THEN obs_fh0[p] ELSE ZeroHash)
          /\ file_hashes[p] \in ObsRead(p)
          /\ ObsDeltas(p) = {} => (p \in DOMAIN obs_fh0 /\ file_hashes[p] = obs_fh0[p])

\* D.tex is in the list twice, both closures read the same content, which is
\* not what was stored, and the closure of the later item got its FileDelta
C37_Witness ==
    /\ ObsDone
    /\ Cardinality(ObsItems("D.tex")) = 2 /\ Cardinality(ObsRead("D.tex")) = 1
    /\ "D.tex" \in DOMAIN obs_fh0
    /\ \E i, j \in ObsItems("D.tex") :
          i < j /\ obs_task[i].delta = <<>> /\ obs_task[j].delta # <<>>

(***************************************************************************)
(* Claims about the tasks of the forwarded attempts (SpecRelay)            *)
(***************************************************************************)

\* Every task spawned has run to its end
RelayDone == rl_task # <<>> /\ \A i \in 1..Len(rl_task) : rl_task[i].pc = "done"

\* C39: the daemon receives the requests of the forwarded attempts in the
\* order the attempts were forwarded, and when all their tasks have run
\* main.tex in the store holds the text of the attempt forwarded last.
C39_ForwardingOrderKept ==
    /\ \A i, j \in 1..Len(rl_recvd) : i < j => rl_recvd[i] < rl_recvd[j]
    /\ RelayDone => vfs["main.tex"] = Last(rl_task).text

\* C40: the revision the consumer of the result channel holds as current
\* never decreases.
C40_ConsumerRevisionMonotone == [][rl_current' >= rl_current]_vars

====
